---- MODULE Spec2Model ----
(***************************************************************************)
(* A model of the change-tracking and paginated-fetch core of the          *)
(* ukparliament package:                                                   *)
(*   - utils.load_data            (paginated fetch),                       *)
(*   - divisions_tracker          (DivisionsTracker.division_task, polls), *)
(*   - bills_tracker              (BillsTracker, Feed, PublicationsTracker)*)
(*   - ukparliament               (member lookups, division population).   *)
(* Each component has its own specification (SpecLoad, SpecDiv, SpecBills, *)
(* SpecPop, ...) over the shared variable list; a component's              *)
(* specification leaves the variables of the other components at their     *)
(* initial values.                                                         *)
(***************************************************************************)
EXTENDS Integers, Sequences, FiniteSets, TLC

VARIABLES
    \* ---- utils.load_data ----
    ld_pc,          \* position of the load_data coroutine
    ld_in,          \* the call's arguments and the upstream it talks to
    total_results,  \* local total_results (utils.py:70-78)
    final_list,     \* local final_list (utils.py:48)
    ld_done,        \* number of page tasks of the gather that have completed
    ld_ret,         \* the list handed to the caller (<<>> until it returns)
    \* ---- DivisionsTracker and the parts of UKParliament it calls ----
    commons_listeners,     \* DivisionsTracker.commons_listeners
    lords_listeners,       \* DivisionsTracker.lords_listeners
    division_cache,        \* UKParliament.division_cache: id -> <<division>> or <<>>
    bill_search_cache,     \* UKParliament.bill_search_cache: term -> <<bills>> or <<>>
    stored_divisions,      \* storage: divisions written by add_division
    stored_bill_divisions, \* storage: (bill id, division) written by add_bill_division
    div_poll,              \* per house: position of poll_commons / poll_lords
    div_tasks,             \* the division_task coroutines in flight
    div_polls,             \* number of polls started so far
    div_passed,            \* history: division -> polls that passed it to listeners
    div_last,              \* history: <<what the division_task that ended last did>>
    \* ---- BillsTracker, Feed, PublicationsTracker ----
    tracker_last_update,   \* BillsTracker._last_update (0 is None)
    feeds,                 \* BillsTracker._feeds: the Feed objects, in list order
    listeners,             \* BillsTracker._listeners: the condition set of each
    stored_updates,        \* storage: updates written by add_feed_update
    stored_publications,   \* storage: updates written by add_publication_update
    first_index,           \* PublicationsTracker._first_index
    bills_poll,            \* position and summary of the BillsTracker.poll cycle
    poll_tasks,            \* the _poll_task coroutines in flight
    pub_poll,              \* position of the PublicationsTracker.poll cycle
    fetch_tasks,           \* the _fetch_task coroutines in flight
    wm_start,              \* history: the watermarks when the current cycle began
    probe,                 \* history: what happened to the entry ProbeEntry
    ops,                   \* the number of calls made so far
    \* ---- UKParliament: member lookups and division population ----
    pop_call,              \* the get_*_division, search or lazy_load_member call in progress
    pop_ret,               \* how the last such call ended, and with what
    old_member_cache,      \* UKParliament.old_member_cache: the member ids it holds
    division_search_cache, \* division_search_{commons,lords}_cache: <<house, term>> -> <<list>> or <<>>
    member_loaded,         \* history: members fetched from the member endpoint
    member_refetched,      \* history: members requested again after having been fetched
    pop_ops,               \* the number of such calls made so far
    \* ---- one TTLCache of UKParliament ----
    cache_cfg,             \* which cache: its name, maxsize and ttl
    cache,                 \* its entries, least recently used first
    clock,                 \* the cache's timer, in seconds
    next_key,              \* the next key that was not asked for before
    cache_probe,           \* history: the probe key's last insertion and lookup
    cache_ops,             \* the number of calls made so far
    \* ---- TrackerListener.meets_conditions, called on its own ----
    mc_in,                 \* the listener's conditions and the feed item
    mc_out,                \* <<>> before the call, <<its result>> after
    \* ---- a _fetch_task of PublicationsTracker.poll, on its own ----
    fp_in,                 \* the Feed's watermark, the limit and the response
    fp_out,                \* <<>> before the fetch, <<what came of it>> after
    \* ---- the scheduling loops of bills_tracker.py ----
    loops,                 \* for each loop: where it is and what happened
    \* ---- the scheduling loop of divisions_tracker.py ----
    div_loop,              \* where it is, and the polls it started that still run
    \* ---- MemberFunctions._index ----
    idx,                   \* the call: its results, loop variable, tasks, members
    \* ---- the cache locks of UKParliament ----
    callers,               \* for each caller: the function it runs and where it is
    holders,               \* for each lock: the callers that hold it
    cached                 \* the caches (named by their lock) that hold the key

ldVars == <<ld_pc, ld_in, total_results, final_list, ld_done, ld_ret>>

divVars == <<commons_listeners, lords_listeners, division_cache,
             bill_search_cache, stored_divisions, stored_bill_divisions,
             div_poll, div_tasks, div_polls, div_passed, div_last>>

billVars == <<tracker_last_update, feeds, listeners, stored_updates,
              stored_publications, first_index, bills_poll, poll_tasks,
              pub_poll, fetch_tasks, wm_start, probe, ops>>

popVars == <<pop_call, pop_ret, old_member_cache, division_search_cache,
             member_loaded, member_refetched, pop_ops>>

cacheVars == <<cache_cfg, cache, clock, next_key, cache_probe, cache_ops>>

matchVars == <<mc_in, mc_out, fp_in, fp_out>>

loopVars == <<loops, div_loop>>

lockVars == <<callers, holders, cached>>

vars == <<ldVars, divVars, billVars, popVars, cacheVars, matchVars, loopVars, idx, lockVars>>

\* what the steps of one component leave alone: the other components
outsideLoad == <<divVars, billVars, popVars, cacheVars, matchVars, loopVars, idx, lockVars>>

outsideDiv == <<ldVars, billVars, popVars, cacheVars, matchVars, loopVars, idx, lockVars>>

outsideBills == <<ldVars, divVars, popVars, cacheVars, matchVars, loopVars, idx, lockVars>>

\* the member lookups share division_cache with the DivisionsTracker
outsidePop == <<ldVars, billVars, cacheVars, matchVars, loopVars, idx, lockVars, commons_listeners, lords_listeners,
                bill_search_cache, stored_divisions, stored_bill_divisions,
                div_poll, div_tasks, div_polls, div_passed, div_last>>

outsideCache == <<ldVars, divVars, billVars, popVars, matchVars, loopVars, idx, lockVars>>

outsideMatch == <<ldVars, divVars, billVars, popVars, cacheVars, loopVars, idx, lockVars>>

outsideLoops == <<ldVars, divVars, billVars, popVars, cacheVars, matchVars,
                  idx, lockVars>>

outsideIndex == <<ldVars, divVars, billVars, popVars, cacheVars, matchVars,
                  loopVars, lockVars>>

outsideLocks == <<ldVars, divVars, billVars, popVars, cacheVars, matchVars,
                  loopVars, idx>>

-----------------------------------------------------------------------------
(* Generic helpers                                                         *)

Min(a, b) == IF a <= b THEN a ELSE b

Max(a, b) == IF a >= b THEN a ELSE b

Range(s) == {s[i] : i \in DOMAIN s}

\* [a, a+1, ..., b] as a sequence (empty when b < a)
Interval(a, b) == [i \in 1..Max(b - a + 1, 0) |-> a + i - 1]

\* Python list slicing  lst[0:n]  for n >= 0: never longer than the list
Slice0(lst, n) == SubSeq(lst, 1, Min(n, Len(lst)))

\* all orderings of the numbers 0..n-1, as sequences
Perms(n) ==
    {s \in [1..n -> 0..(n - 1)] : \A i, j \in 1..n : i # j => s[i] # s[j]}

-----------------------------------------------------------------------------
(* utils.load_data                                                         *)

\* the page size written into load_data (math.ceil(total_results / 20),
\* skip = page * 20, take = 20)
PageSize == 20

\* Up to this many page tasks complete in every possible order; a gather of
\* more tasks is explored with the tasks completing first-to-last and
\* last-to-first only.
MaxShuffledPages == 3

\* total counts the upstream reports, or the caller passes as override
Totals == {0, PageSize, PageSize + 1, 2 * PageSize + 1, PageSize * PageSize}

\* total_search_results arguments: -1 is the default (no override)
Overrides == {-1, 0, 10, PageSize + 1}

\* math.ceil(total_results / 20)
PagesCeilMutant(total) == total \div PageSize

Pages(total) == (total + PageSize - 1) \div PageSize

\* total_results as the first response and the override give it
TotalOf(in) ==
    LET fromContent ==
            IF in.field = "totalResults" THEN in.reported
            ELSE IF in.field = "totalItems" THEN in.reported
            ELSE 0
    IN  IF in.override # -1 THEN in.override ELSE fromContent

\* What the upstream holding items 1..n serves for one page request: the
\* items skip+1 .. skip+20 that exist (page 0 is requested without skip and
\* take and gets the upstream's first page).
ServePage(n, page) ==
    Interval(page * PageSize + 1, Min(n, page * PageSize + PageSize))

\* orders in which the page tasks of one gather may complete
Orders(pages) ==
    IF pages <= MaxShuffledPages THEN Perms(pages)
    ELSE {[i \in 1..pages |-> i - 1], [i \in 1..pages |-> pages - i]}

\* the pages whose request the environment answers with a non-200 status
FailingChoices(pages) ==
    {{}} \cup (IF pages > 0 THEN {{0}, {pages - 1}} ELSE {})

\* upstream sizes tried against a total: empty, a few, exactly the total,
\* and more than the total
UpstreamSizes(total) == {0, 5, total, total + 5}

\* what the first response says about the total: (field name, value)
ReportedTotals ==
    {<<"none", 0>>} \cup ({"totalResults", "totalItems"} \X Totals)

InputsFor(rep, ov) ==
    LET total == TotalOf([field |-> rep[1], reported |-> rep[2], override |-> ov])
    IN  {[field |-> rep[1], reported |-> rep[2], override |-> ov,
          upstream |-> u, firstStatus |-> st, failing |-> f, order |-> <<>>] :
            u \in UpstreamSizes(total), st \in {200, 500},
            f \in FailingChoices(Pages(total))}

LoadInputs ==
    UNION {InputsFor(rep, ov) : rep \in ReportedTotals, ov \in Overrides}

\* the status of the response to the request for one page
PageStatusIgnoredMutant(in, page) == 200

PageStatus(in, page) == IF page \in in.failing THEN 500 ELSE 200

\* the return expression of load_data (utils.py:93-97)
TruncateNeverMutant(lst, total) == lst

Truncate(lst, total) ==
    IF total # 0 /\ total # -1 THEN Slice0(lst, total) ELSE lst

\* load_data not called
LoadIdle ==
    /\ ld_pc = "idle"
    /\ ld_in = <<>>
    /\ total_results = -1
    /\ final_list = <<>>
    /\ ld_done = 0
    /\ ld_ret = <<>>

LoadInit ==
    /\ ld_pc = "get"
    /\ ld_in \in LoadInputs
    /\ total_results = -1
    /\ final_list = <<>>
    /\ ld_done = 0
    /\ ld_ret = <<>>

\* async with session.get(url) as resp: the first response arrives; a
\* non-200 status raises, otherwise the total is read, the page tasks are
\* built and the gather starts them (the environment fixes the order in
\* which their responses will arrive).
LoadDataGet ==
    /\ ld_pc = "get"
    /\ IF ld_in.firstStatus # 200
       THEN /\ ld_pc' = "raised"
            /\ UNCHANGED <<ld_in, total_results>>
       ELSE /\ total_results' = TotalOf(ld_in)
            /\ \E o \in Orders(Pages(TotalOf(ld_in))) :
                   ld_in' = [ld_in EXCEPT !.order = o]
            /\ ld_pc' = "gather"
    /\ UNCHANGED <<final_list, ld_done, ld_ret>>
    /\ UNCHANGED outsideLoad

\* one page task of the gather completes: task(t_url)
PageTask ==
    /\ ld_pc = "gather"
    /\ ld_done < Len(ld_in.order)
    /\ LET page == ld_in.order[ld_done + 1]
       IN  IF PageStatus(ld_in, page) # 200
           THEN \* the task raises, gather re-raises, load_data raises
                /\ ld_pc' = "raised"
                /\ UNCHANGED <<final_list, ld_done>>
           ELSE /\ final_list' = final_list \o ServePage(ld_in.upstream, page)
                /\ ld_done' = ld_done + 1
                /\ ld_pc' = "gather"
    /\ UNCHANGED <<ld_in, total_results, ld_ret>>
    /\ UNCHANGED outsideLoad

\* every task of the gather is done: the return statement
LoadDataReturn ==
    /\ ld_pc = "gather"
    /\ ld_done = Len(ld_in.order)
    /\ ld_ret' = Truncate(final_list, total_results)
    /\ ld_pc' = "returned"
    /\ UNCHANGED <<ld_in, total_results, final_list, ld_done>>
    /\ UNCHANGED outsideLoad

LoadNext == LoadDataGet \/ PageTask \/ LoadDataReturn

-----------------------------------------------------------------------------
(* Properties of load_data, checked under SpecLoad                         *)

\* the upstream holds exactly the items its total announces and the caller
\* passes no override
FaithfulUpstream ==
    /\ ld_in.override = -1
    /\ ld_in.field # "none"
    /\ ld_in.upstream = ld_in.reported

\* C7: against an upstream that reports total count T and faithfully serves
\* pages of 20 items, load_data returns exactly T items (each item of the
\* upstream once), for T = 0, 20, 21, 41 and 400.
C7_PaginationCompleteness ==
    (ld_pc = "returned" /\ FaithfulUpstream)
        => /\ Len(ld_ret) = ld_in.reported
           /\ Range(ld_ret) = 1..ld_in.reported

C7_Witness ==
    /\ ld_pc = "returned"
    /\ FaithfulUpstream
    /\ ld_in.reported = PageSize * PageSize
    /\ Len(ld_ret) = PageSize * PageSize
    /\ ld_in.order[1] # 0

\* C8: if the initial request or any page request is answered with a
\* non-200 status, load_data never returns and the caller receives no items.
C8_NoPartialResult ==
    (ld_in.firstStatus # 200 \/ ld_in.failing # {})
        => (ld_pc # "returned" /\ ld_ret = <<>>)

C8_Witness ==
    /\ ld_pc = "raised"
    /\ ld_in.firstStatus = 200
    /\ Len(final_list) > 0

\* C9 as claimed: with a non-zero total T the returned list has exactly T
\* entries, whether the pages hold more or fewer than T items.
C9_ExactlyTotalEntries ==
    (ld_pc = "returned" /\ total_results # 0)
        => Len(ld_ret) = total_results

\* the number of items the requested pages of the upstream hold together
FetchedCount == Min(ld_in.upstream, Pages(total_results) * PageSize)

\* C9 as amended: with a non-zero total T the returned list has exactly T
\* entries when the requested pages together hold at least T items, and holds
\* every fetched item (fewer than T, nothing is padded) when they hold fewer.
C9_TruncatedNotPadded ==
    (ld_pc = "returned" /\ total_results # 0)
        => /\ Len(ld_ret) = Min(total_results, FetchedCount)
           /\ ld_ret = SubSeq(final_list, 1, Len(ld_ret))

C9_Witness ==
    /\ ld_pc = "returned"
    /\ total_results # 0
    /\ Len(final_list) > total_results
    /\ Len(ld_ret) = total_results

\* C10: when the first response carries neither totalResults nor totalItems
\* and no override is passed, the total is 0 and the returned list is the
\* contents of the first page.
C10_FirstPageVerbatim ==
    (ld_pc = "returned" /\ ld_in.field = "none" /\ ld_in.override = -1)
        => /\ total_results = 0
           /\ ld_ret = ServePage(ld_in.upstream, 0)

\* C35: load_data returns the items in page order whatever order the page
\* responses complete in: the i-th entry of the returned list is the i-th
\* item of the upstream, so a truncation keeps the lowest-indexed items.
C35_PageOrder ==
    ld_pc = "returned" => \A i \in DOMAIN ld_ret : ld_ret[i] = i

-----------------------------------------------------------------------------
(* Strings, as sequences of characters                                     *)

\* s.startswith(prefix)
StartsWith(s, prefix) ==
    Len(prefix) <= Len(s) /\ SubSeq(s, 1, Len(prefix)) = prefix

\* sub occurs in s at position i
OccursAt(s, sub, i) ==
    i + Len(sub) - 1 <= Len(s) /\ SubSeq(s, i, i + Len(sub) - 1) = sub

\* sub in s
Contains(s, sub) == \E i \in 1..Len(s) : OccursAt(s, sub, i)

\* s.split(sub)[0]: the part of s before the first occurrence of sub
\* (all of s when sub does not occur)
SplitHead(s, sub) ==
    IF Contains(s, sub)
    THEN LET first == CHOOSE i \in 1..Len(s) :
                          /\ OccursAt(s, sub, i)
                          /\ \A j \in 1..(i - 1) : ~OccursAt(s, sub, j)
         IN  SubSeq(s, 1, first - 1)
    ELSE s

\* the literal "Bill"
BillWord == <<"B", "i", "l", "l">>

\* bill_section = title.split("Bill")[0] + "Bill"
BillSection(title) == SplitHead(title, BillWord) \o BillWord

-----------------------------------------------------------------------------
(* DivisionsTracker                                                        *)

\* the longest bill list a bill search returns
MaxSearchResults == 2

\* the number of polls (of both houses together) that are started
MaxPolls == 2

\* division ids the upstream knows, in each house
DivisionIds == {1, 2}

\* bill ids the upstream knows
BillIds == {1, 2, 3}

Houses == {"commons", "lords"}

\* a CommonsDivision or LordsDivision object
Divisions == [house : Houses, id : DivisionIds]

\* the upstream's division titles: odd ids are votes on a bill (the title
\* has the word Bill twice), even ids are votes on a motion
DivisionTitle(d) ==
    IF d.id % 2 = 1
    THEN <<"A", " ", "B", "i", "l", "l", ":", "B", "i", "l", "l", "s">>
    ELSE <<"M", "o", "t", "i", "o", "n">>

\* the upstream's bill titles: "A Bill", "A Bill 2" and "XA Bill"
BillTitle(b) ==
    CASE b % 3 = 1 -> <<"A", " ", "B", "i", "l", "l">>
      [] b % 3 = 2 -> <<"A", " ", "B", "i", "l", "l", " ", "2">>
      [] OTHER     -> <<"X", "A", " ", "B", "i", "l", "l">>

\* sequences of distinct elements of S, of length at most n
DistinctSeqs(S, n) ==
    UNION {{q \in [1..k -> S] : \A i, j \in 1..k : i # j => q[i] # q[j]} :
               k \in 0..n}

\* what a bill search may return: any list of distinct bills
SearchResults == DistinctSeqs(BillIds, MaxSearchResults)

\* what a division search may return: any list of distinct divisions
DivisionSearchResults == DistinctSeqs(DivisionIds, Cardinality(DivisionIds))

\* the search terms division_task can build
SearchTerms ==
    {BillSection(DivisionTitle(d)) :
         d \in {e \in Divisions : Contains(DivisionTitle(e), BillWord)}}

Reverse(q) == [i \in 1..Len(q) |-> q[Len(q) + 1 - i]]

\* DivisionStorage.division_stored: "Check if a division not associated to
\* a bill is stored"
division_stored(d) == d \in stored_divisions

\* DivisionStorage.bill_division_stored
bill_division_stored(b, d) == <<b, d>> \in stored_bill_divisions

\* the loop of division_task over the search result (lines 177-180); 0
\* stands for None
RECURSIVE PickBillFrom(_, _, _)
PickBillFrom(bills, section, bill) ==
    IF bills = <<>> THEN bill
    ELSE PickBillFrom(Tail(bills), section,
                      IF StartsWith(BillTitle(Head(bills)), section)
                      THEN Head(bills) ELSE bill)

PickBill(bills, section) == PickBillFrom(bills, section, 0)

\* the tracker after construction and after the application has registered
\* two listeners for the Commons and one for the Lords
DivInit ==
    /\ commons_listeners = <<"c1", "c2">>
    /\ lords_listeners = <<"l1">>
    /\ division_cache = [i \in DivisionIds |-> <<>>]
    /\ bill_search_cache = [t \in SearchTerms |-> <<>>]
    /\ stored_divisions = {}
    /\ stored_bill_divisions = {}
    /\ div_poll = [h \in Houses |-> [pc |-> "idle", n |-> 0]]
    /\ div_tasks = {}
    /\ div_polls = 0
    /\ div_passed = [d \in Divisions |-> {}]
    /\ div_last = <<>>

\* no poll_commons or poll_lords call is in progress, and no division_task
\* of an earlier poll (one whose gather has raised) is still running
NoPollRunning ==
    /\ \A h \in Houses : div_poll[h].pc = "idle"
    /\ div_tasks = {}

\* poll_commons / poll_lords is called and awaits the division search; the
\* caller polls without overlap
PollStart(house) ==
    /\ div_polls < MaxPolls
    /\ NoPollRunning
    /\ div_polls' = div_polls + 1
    /\ div_poll' = [div_poll EXCEPT ![house] = [pc |-> "search", n |-> div_polls + 1]]
    /\ UNCHANGED <<commons_listeners, lords_listeners, division_cache,
                   bill_search_cache, stored_divisions, stored_bill_divisions,
                   div_tasks, div_passed, div_last>>
    /\ UNCHANGED outsideDiv

NewTask(house, n, id) ==
    [poll |-> n, lords |-> (house = "lords"), id |-> id, pc |-> "start",
     division |-> <<>>, bills |-> <<>>, bill |-> 0,
     writes |-> <<>>, invoked |-> <<>>]

\* search_for_commons_divisions / search_for_lords_divisions answers (or
\* raises); one division_task per returned division is created and gathered
PollSearched(house) ==
    /\ div_poll[house].pc = "search"
    /\ \/ \* the search raises, and so does the poll
          /\ div_poll' = [div_poll EXCEPT ![house].pc = "idle"]
          /\ UNCHANGED div_tasks
       \/ \E found \in DivisionSearchResults :
              LET divisions == IF house = "lords" THEN Reverse(found) ELSE found
                  tasks == {NewTask(house, div_poll[house].n, divisions[i]) :
                                i \in DOMAIN divisions}
              IN  /\ div_tasks' = div_tasks \cup tasks
                  /\ div_poll' = [div_poll EXCEPT ![house].pc =
                                      IF tasks = {} THEN "idle" ELSE "gather"]
    /\ UNCHANGED <<commons_listeners, lords_listeners, division_cache,
                   bill_search_cache, stored_divisions, stored_bill_divisions,
                   div_polls, div_passed, div_last>>
    /\ UNCHANGED outsideDiv

HouseOf(t) == IF t.lords THEN "lords" ELSE "commons"

\* the poll that gathers task t, after t has ended: the gather (and the poll)
\* ends when t raised or when t was its last task
PollAfter(t, raised) ==
    LET h == HouseOf(t)
        others == {u \in div_tasks : u # t /\ u.poll = t.poll}
    IN  IF /\ div_poll[h].pc = "gather"
           /\ div_poll[h].n = t.poll
           /\ (raised \/ others = {})
        THEN [div_poll EXCEPT ![h].pc = "idle"]
        ELSE div_poll

\* what is remembered of a task that ended: where it ended, its division
\* and bill, the storage writes it made and the listeners it invoked
Ended(t, how) ==
    <<[at |-> t.pc, how |-> how, division |-> t.division, bill |-> t.bill,
       writes |-> t.writes, invoked |-> t.invoked]>>

\* task t returns
TaskReturns(t) ==
    /\ div_tasks' = div_tasks \ {t}
    /\ div_poll' = PollAfter(t, FALSE)
    /\ div_last' = Ended(t, "returned")

\* task t raises
TaskRaises(t) ==
    /\ div_tasks' = div_tasks \ {t}
    /\ div_poll' = PollAfter(t, TRUE)
    /\ div_last' = Ended(t, "raised")

\* task t goes on as u
TaskBecomes(t, u) ==
    /\ div_tasks' = (div_tasks \ {t}) \cup {u}
    /\ UNCHANGED <<div_poll, div_last>>

\* division_task after it has its bill (0 for None): with a bill it asks
\* bill_division_stored next, without one it writes add_division next
WithBill(t, bills, bill) ==
    [t EXCEPT !.bills = <<bills>>, !.bill = bill,
              !.pc = IF bill # 0 THEN "bill_division_stored" ELSE "add"]

\* division_task begins: get_lords_division / get_commons_division looks
\* into division_cache (one cache, keyed by the id alone) and, on a miss,
\* requests the division
DivTaskStart(t) ==
    /\ t.pc = "start"
    /\ IF division_cache[t.id] # <<>>
       THEN TaskBecomes(t, [t EXCEPT !.division = division_cache[t.id],
                                     !.pc = "division_stored"])
       ELSE TaskBecomes(t, [t EXCEPT !.pc = "fetch"])
    /\ UNCHANGED <<commons_listeners, lords_listeners, division_cache,
                   bill_search_cache, stored_divisions, stored_bill_divisions,
                   div_polls, div_passed>>
    /\ UNCHANGED outsideDiv

\* the division request is answered and the division is populated (or one
\* of the requests fails and the call raises); the division is cached
DivTaskFetched(t) ==
    /\ t.pc = "fetch"
    /\ \/ /\ TaskRaises(t)
          /\ UNCHANGED division_cache
       \/ LET division == [house |-> HouseOf(t), id |-> t.id]
          IN  /\ division_cache' = [division_cache EXCEPT ![t.id] = <<division>>]
              /\ TaskBecomes(t, [t EXCEPT !.division = <<division>>,
                                          !.pc = "division_stored"])
    /\ UNCHANGED <<commons_listeners, lords_listeners,
                   bill_search_cache, stored_divisions, stored_bill_divisions,
                   div_polls, div_passed>>
    /\ UNCHANGED outsideDiv

\* storage.division_stored answers; a new division gets its bill section and
\* search_bills looks into bill_search_cache, requesting the search on a miss
DivTaskStored(t) ==
    /\ t.pc = "division_stored"
    /\ LET division == t.division[1]
           title == DivisionTitle(division)
           section == BillSection(title)
       IN  IF division_stored(division)
           THEN TaskReturns(t)
           ELSE IF ~Contains(title, BillWord)
           THEN TaskBecomes(t, [t EXCEPT !.pc = "add"])
           ELSE IF bill_search_cache[section] # <<>>
           THEN TaskBecomes(t, WithBill(t, bill_search_cache[section][1],
                                        PickBill(bill_search_cache[section][1],
                                                 section)))
           ELSE TaskBecomes(t, [t EXCEPT !.pc = "search"])
    /\ UNCHANGED <<commons_listeners, lords_listeners, division_cache,
                   bill_search_cache, stored_divisions, stored_bill_divisions,
                   div_polls, div_passed>>
    /\ UNCHANGED outsideDiv

\* the bill search is answered (or fails): the result is cached and the
\* bill is picked from it
DivTaskSearched(t) ==
    /\ t.pc = "search"
    /\ LET section == BillSection(DivisionTitle(t.division[1]))
       IN  \/ /\ TaskRaises(t)
              /\ UNCHANGED bill_search_cache
           \/ \E bills \in SearchResults :
                  /\ bill_search_cache' =
                         [bill_search_cache EXCEPT ![section] = <<bills>>]
                  /\ TaskBecomes(t, WithBill(t, bills, PickBill(bills, section)))
    /\ UNCHANGED <<commons_listeners, lords_listeners, division_cache,
                   stored_divisions, stored_bill_divisions,
                   div_polls, div_passed>>
    /\ UNCHANGED outsideDiv

\* storage.bill_division_stored answers
DivTaskBillStored(t) ==
    /\ t.pc = "bill_division_stored"
    /\ IF bill_division_stored(t.bill, t.division[1])
       THEN TaskReturns(t)
       ELSE TaskBecomes(t, [t EXCEPT !.pc = "add"])
    /\ UNCHANGED <<commons_listeners, lords_listeners, division_cache,
                   bill_search_cache, stored_divisions, stored_bill_divisions,
                   div_polls, div_passed>>
    /\ UNCHANGED outsideDiv

\* the listeners division_task invokes for a division
AlwaysCommonsMutant(division) == commons_listeners

ListenersFor(division) ==
    IF division.house = "lords" THEN lords_listeners ELSE commons_listeners

\* the storage write division_task makes for a division and its bill (0 for
\* None)
AlwaysAddDivisionMutant(bill, division) == <<"add_division", division>>

StorageWrite(bill, division) ==
    IF bill # 0 THEN <<"add_bill_division", bill, division>>
    ELSE <<"add_division", division>>

\* add_bill_division / add_division is written, then every listener of the
\* division's house is invoked with (division, bill) and gathered
DivTaskAdd(t) ==
    /\ t.pc = "add"
    /\ LET division == t.division[1]
           invoked == Range(ListenersFor(division))
           write == StorageWrite(t.bill, division)
       IN  /\ IF write[1] = "add_bill_division"
              THEN /\ stored_bill_divisions' =
                          stored_bill_divisions \cup {<<write[2], write[3]>>}
                   /\ UNCHANGED stored_divisions
              ELSE /\ stored_divisions' = stored_divisions \cup {write[2]}
                   /\ UNCHANGED stored_bill_divisions
           /\ div_passed' = IF invoked = {} THEN div_passed
                            ELSE [div_passed EXCEPT ![division] = @ \cup {t.poll}]
           /\ TaskBecomes(t, [t EXCEPT !.pc = "listeners",
                                       !.writes = Append(@, write),
                                       !.invoked = ListenersFor(division)])
    /\ UNCHANGED <<commons_listeners, lords_listeners, division_cache,
                   bill_search_cache, div_polls>>
    /\ UNCHANGED outsideDiv

\* the gather of the listener coroutines ends: all returned, or one raised
DivTaskListeners(t) ==
    /\ t.pc = "listeners"
    /\ \/ TaskReturns(t)
       \/ /\ ListenersFor(t.division[1]) # <<>>
          /\ TaskRaises(t)
    /\ UNCHANGED <<commons_listeners, lords_listeners, division_cache,
                   bill_search_cache, stored_divisions, stored_bill_divisions,
                   div_polls, div_passed>>
    /\ UNCHANGED outsideDiv

\* a TTLCache entry reaches its ttl (600 s for divisions, 180 s for bill
\* searches) and is dropped; entries expire in the pause between two polls
DivisionCacheExpires(id) ==
    /\ NoPollRunning
    /\ division_cache[id] # <<>>
    /\ division_cache' = [division_cache EXCEPT ![id] = <<>>]
    /\ UNCHANGED <<commons_listeners, lords_listeners,
                   bill_search_cache, stored_divisions, stored_bill_divisions,
                   div_poll, div_tasks, div_polls, div_passed, div_last>>
    /\ UNCHANGED outsideDiv

BillSearchCacheExpires(term) ==
    /\ NoPollRunning
    /\ bill_search_cache[term] # <<>>
    /\ bill_search_cache' = [bill_search_cache EXCEPT ![term] = <<>>]
    /\ UNCHANGED <<commons_listeners, lords_listeners,
                   division_cache, stored_divisions, stored_bill_divisions,
                   div_poll, div_tasks, div_polls, div_passed, div_last>>
    /\ UNCHANGED outsideDiv

DivNext ==
    \/ \E h \in Houses : PollStart(h)
    \/ \E h \in Houses : PollSearched(h)
    \/ \E t \in div_tasks : DivTaskStart(t)
    \/ \E t \in div_tasks : DivTaskFetched(t)
    \/ \E t \in div_tasks : DivTaskStored(t)
    \/ \E t \in div_tasks : DivTaskSearched(t)
    \/ \E t \in div_tasks : DivTaskBillStored(t)
    \/ \E t \in div_tasks : DivTaskAdd(t)
    \/ \E t \in div_tasks : DivTaskListeners(t)
    \/ \E id \in DivisionIds : DivisionCacheExpires(id)
    \/ \E term \in SearchTerms : BillSearchCacheExpires(term)

\* start_event_loop: main() starts poll_commons and poll_lords with
\* ensure_future, sleeps 30 s and calls itself, whether or not the polls of
\* the cycle before have ended. A poll of a house is started here on its own
\* (the other poll of the cycle is the one whose search returns nothing);
\* the tasks of the earlier polls keep running. The overlaps explored are
\* those where the earlier searches have answered and at most MaxOverlap of
\* the earlier tasks are still running.
MaxOverlap == 1

LoopPollStart(house) ==
    /\ div_polls < MaxPolls
    /\ \A h \in Houses : div_poll[h].pc # "search"
    /\ Cardinality(div_tasks) <= MaxOverlap
    /\ div_polls' = div_polls + 1
    /\ div_poll' = [div_poll EXCEPT ![house] = [pc |-> "search", n |-> div_polls + 1]]
    /\ UNCHANGED <<commons_listeners, lords_listeners, division_cache,
                   bill_search_cache, stored_divisions, stored_bill_divisions,
                   div_tasks, div_passed, div_last>>
    /\ UNCHANGED outsideDiv

DivLoopNext ==
    \/ \E h \in Houses : LoopPollStart(h)
    \/ \E h \in Houses : PollSearched(h)
    \/ \E t \in div_tasks : DivTaskStart(t)
    \/ \E t \in div_tasks : DivTaskFetched(t)
    \/ \E t \in div_tasks : DivTaskStored(t)
    \/ \E t \in div_tasks : DivTaskSearched(t)
    \/ \E t \in div_tasks : DivTaskBillStored(t)
    \/ \E t \in div_tasks : DivTaskAdd(t)
    \/ \E t \in div_tasks : DivTaskListeners(t)
    \/ \E id \in DivisionIds : DivisionCacheExpires(id)
    \/ \E term \in SearchTerms : BillSearchCacheExpires(term)

-----------------------------------------------------------------------------
(* BillsTracker, Feed and PublicationsTracker                              *)

\* timestamps are 1..MaxDate; 0 stands for None
MaxDate == 2

\* the longest item list a feed response carries
MaxItems == 2

\* the number of calls (poll cycles of either tracker and direct _poll_task
\* calls) that are made
MaxOps == 2

Dates == 1..MaxDate

\* the bills the upstream feeds report on
TrackedBills == {1, 2}

\* an <item> of the aggregate feed: its guid is the bill's url, which ends
\* in the bill id; a10:updated is its timestamp
Entries == [bill : TrackedBills, updated : Dates]

\* the entry whose fate the history variable probe records
ProbeEntry == [bill |-> 1, updated |-> 1]

\* str.lower(), on the letters the upstream's texts use
LowerChar(c) ==
    CASE c = "A" -> "a" [] c = "C" -> "c" [] c = "G" -> "g"
      [] c = "L" -> "l" [] c = "R" -> "r" [] OTHER -> c

Lower(str) == [i \in DOMAIN str |-> LowerChar(str[i])]

\* the <category> texts of a bill's entries: odd bills are Lords government
\* bills, even bills are Commons bills
RawCategories(bill) ==
    IF bill % 2 = 1
    THEN << <<"L", "o", "r", "d", "s">>, <<"G", "o", "v">> >>
    ELSE << <<"C", "o", "m", "m", "o", "n", "s">> >>

\* the p4:stage attribute of a bill's entries (<<>> when the attribute is
\* missing): even bills are at Royal Assent
RawStage(bill) ==
    IF bill % 2 = 1 THEN <<>>
    ELSE << <<"R", "o", "y", "a", "l", " ", "A", "s", "s", "e", "n", "t">> >>

\* a bill id as the str cut from a guid, and as the int of Feed.get_id();
\* the two never compare equal
StrId(b) == <<"str", b>>

IntId(b) == <<"int", b>>

\* FeedUpdate.__init__
FeedUpdate(item) ==
    [bill_id |-> StrId(item.bill),
     stage |-> RawStage(item.bill),
     categories |-> [i \in DOMAIN RawCategories(item.bill) |->
                         Lower(RawCategories(item.bill)[i])],
     updated |-> item.updated]

\* Feed.__init__
NewFeed(bill_url) ==
    [bill_url |-> bill_url, last_update |-> 0, last_publication_update |-> 0]

\* Feed.get_id: int(self.bill_id)
FeedGetId(feed) == IntId(feed.bill_url)

\* BillsTracker.get_feed: the position of the first Feed whose get_id()
\* equals id, 0 for None
GetFeed(fs, id) ==
    IF \E i \in DOMAIN fs : FeedGetId(fs[i]) = id
    THEN CHOOSE i \in DOMAIN fs :
             /\ FeedGetId(fs[i]) = id
             /\ \A j \in 1..(i - 1) : FeedGetId(fs[j]) # id
    ELSE 0

LordsWord == <<"l", "o", "r", "d", "s">>

CommonsWord == <<"c", "o", "m", "m", "o", "n", "s">>

RoyalAssentWord == <<"r", "o", "y", "a", "l", " ", "a", "s", "s", "e", "n", "t">>

\* TrackerListener.meets_conditions
MeetsEmptyAsAllMutant(conditionals, update) ==
    conditionals = {} \/ "ALL" \in conditionals

MeetsConditions(conditionals, update) ==
    IF "ALL" \in conditionals THEN TRUE
    ELSE IF "LORDS" \in conditionals /\ LordsWord \in Range(update.categories)
    THEN TRUE
    ELSE IF "COMMONS" \in conditionals /\ CommonsWord \in Range(update.categories)
    THEN TRUE
    ELSE IF /\ "ROYAL_ASSENT" \in conditionals
            /\ Contains(IF update.stage # <<>> THEN Lower(update.stage[1]) ELSE <<>>,
                        RoyalAssentWord)
    THEN TRUE
    ELSE FALSE

\* Feed.process_poll_item: the Feed afterwards and the update it returns
\* (<<>> for None)
ProcessPollItemAlwaysMutant(feed, item) ==
    [feed |-> [feed EXCEPT !.last_update = FeedUpdate(item).updated],
     update |-> <<FeedUpdate(item)>>]

ProcessPollItemNotOlderMutant(feed, item) ==
    IF feed.last_update = 0 \/ feed.last_update <= FeedUpdate(item).updated
    THEN [feed |-> [feed EXCEPT !.last_update = FeedUpdate(item).updated],
          update |-> <<FeedUpdate(item)>>]
    ELSE [feed |-> feed, update |-> <<>>]

ProcessPollItem(feed, item) ==
    LET update == FeedUpdate(item)
    IN  IF feed.last_update = 0
        THEN [feed |-> [feed EXCEPT !.last_update = update.updated],
              update |-> <<update>>]
        ELSE IF feed.last_update < update.updated
        THEN [feed |-> [feed EXCEPT !.last_update = update.updated],
              update |-> <<update>>]
        ELSE [feed |-> feed, update |-> <<>>]

\* item lists, newest first, of at most MaxItems distinct entries
NewestFirstEntries ==
    {q \in DistinctSeqs(Entries, MaxItems) :
         \A i \in 1..(Len(q) - 1) : q[i].updated >= q[i + 1].updated}

\* what the aggregate feed may answer
AggResponses ==
    [status : {200, 500}, lastbuilddate : Dates,
     items : NewestFirstEntries]

\* the listener sets an application registers: one listener for ALL, or
\* three listeners for LORDS, for ALL and for PUBLICATIONS
ListenerConfigs ==
    {<<{"ALL"}>>, <<{"LORDS"}, {"ALL"}, {"PUBLICATIONS"}>>}

\* items = reversed(find_all("item")) is an iterator, and
\* len(list(items)) in the print of line 523 consumes it: what the for loop
\* of line 533 still gets from it
LeftAfterListed(iterator) == <<>>

\* a _poll_task coroutine for the Feed at position feed of _feeds
NewPollTask(n, task_num, feed, item) ==
    [poll |-> n, num |-> task_num, feed |-> feed, item |-> item, pc |-> "start",
     update |-> <<>>, listener |-> 0, handlers |-> <<>>, adds |-> 0,
     started |-> 0]

\* a loop that gives every item a new Feed
PollLoopAlwaysNewMutant(items, fs, tasks, n) ==
    [feeds |-> fs \o [i \in DOMAIN items |-> NewFeed(items[i].bill)],
     tasks |-> tasks]

\* the for loop of BillsTracker.poll (lines 533-546) over the items left:
\* the Feed list and the task list it ends with
RECURSIVE PollLoop(_, _, _, _)
PollLoop(items, fs, tasks, n) ==
    IF items = <<>> THEN [feeds |-> fs, tasks |-> tasks]
    ELSE LET item == Head(items)
             bill_id == StrId(item.bill)
             known == \E i \in DOMAIN fs : fs[i].bill_url = item.bill
             feed == IF known THEN GetFeed(fs, bill_id) ELSE Len(fs) + 1
             fs2 == IF known THEN fs ELSE Append(fs, NewFeed(item.bill))
         IN  IF feed = 0
             THEN PollLoop(Tail(items), fs2, tasks, n)
             ELSE PollLoop(Tail(items), fs2,
                           tasks \cup {NewPollTask(n, Cardinality(tasks), feed, item)},
                           n)

\* the entries of the tasks of one poll, in the order in which the tasks
\* were created (and in which gather starts them)
CreationOrder(tasks) ==
    [k \in 1..Cardinality(tasks) |->
         (CHOOSE t \in tasks : t.num = k - 1).item]

\* the watermarks: _last_update and, per Feed, last_update and
\* last_publication_update
Watermarks ==
    <<tracker_last_update,
      [i \in DOMAIN feeds |->
           <<feeds[i].last_update, feeds[i].last_publication_update>>]>>

\* the value of wm_start outside a poll cycle
NoSnapshot == <<0, <<>>>>

\* wm_start after a step: the snapshot is dropped when the cycle has ended
SnapshotKept ==
    wm_start' = IF bills_poll'.pc = "idle" /\ pub_poll'.pc = "idle"
                THEN NoSnapshot ELSE wm_start

\* nothing is running: no poll cycle and no coroutine left by one
Quiet ==
    /\ bills_poll.pc = "idle"
    /\ pub_poll.pc = "idle"
    /\ poll_tasks = {}
    /\ fetch_tasks = {}

BillsInit ==
    /\ tracker_last_update = 0
    /\ feeds = <<>>
    /\ listeners \in ListenerConfigs
    /\ stored_updates = {}
    /\ stored_publications = {}
    /\ first_index = TRUE
    /\ bills_poll = [pc |-> "idle", outcome |-> "none", n |-> 0, fresh |-> FALSE,
                     entries |-> 0, handed |-> 0, dispatched |-> 0,
                     lastbuilddate |-> 0, order |-> <<>>, repeated |-> FALSE]
    /\ poll_tasks = {}
    /\ pub_poll = [pc |-> "idle", outcome |-> "none", n |-> 0, tasks |-> <<>>]
    /\ fetch_tasks = {}
    /\ wm_start = NoSnapshot
    /\ probe = [presented |-> 0, handled |-> 0, added |-> 0, discarded |-> 0,
                fetched |-> {}]
    /\ ops = 0

\* BillsTracker.poll, lines 525-527: _last_update (0 for None) is set and
\* the feed's build date is not after it
NeverSkipsMutant(last_update, rss_last_update) == FALSE

NotNewer(last_update, rss_last_update) ==
    last_update # 0 /\ last_update >= rss_last_update

\* BillsTracker.poll is called and awaits the aggregate feed
BillsPollStart ==
    /\ Quiet
    /\ ops < MaxOps
    /\ ops' = ops + 1
    /\ bills_poll' = [pc |-> "get", outcome |-> "none", n |-> bills_poll.n + 1,
                      fresh |-> (bills_poll.n = 0 /\ feeds = <<>>
                                   /\ stored_updates = {}),
                      entries |-> 0, handed |-> 0, dispatched |-> 0,
                     lastbuilddate |-> 0, order |-> <<>>, repeated |-> FALSE]
    /\ wm_start' = Watermarks
    /\ UNCHANGED <<tracker_last_update, feeds, listeners, stored_updates,
                   stored_publications, first_index, poll_tasks, pub_poll,
                   fetch_tasks, probe>>
    /\ UNCHANGED outsideBills

\* the aggregate feed answers: a non-200 status raises; a build date that is
\* not newer than _last_update ends the cycle; otherwise _last_update is set,
\* the items left in the iterator are handed to their Feeds and the tasks
\* are gathered
BillsPollResponse ==
    /\ bills_poll.pc = "get"
    /\ \E resp \in AggResponses :
           LET items == LeftAfterListed(Reverse(resp.items))
               loop == PollLoop(items, feeds, {}, bills_poll.n)
               seen == [bills_poll EXCEPT !.entries = Len(resp.items),
                                          !.handed = Cardinality(loop.tasks),
                                          !.lastbuilddate = resp.lastbuilddate,
                                          !.order = CreationOrder(loop.tasks),
                                          !.repeated =
                                              \E i, j \in DOMAIN resp.items :
                                                  /\ i # j
                                                  /\ resp.items[i].bill =
                                                         resp.items[j].bill]
           IN  IF resp.status # 200
               THEN /\ bills_poll' = [bills_poll EXCEPT !.pc = "idle",
                                                         !.outcome = "raised"]
                    /\ UNCHANGED <<tracker_last_update, feeds, poll_tasks, probe>>
               ELSE /\ probe' = IF ProbeEntry \in Range(resp.items)
                                THEN [probe EXCEPT !.presented = @ + 1]
                                ELSE probe
                    /\ IF NotNewer(tracker_last_update, resp.lastbuilddate)
                       THEN /\ bills_poll' = [seen EXCEPT !.pc = "idle",
                                                           !.outcome = "skipped"]
                            /\ UNCHANGED <<tracker_last_update, feeds, poll_tasks>>
                       ELSE /\ tracker_last_update' = resp.lastbuilddate
                            /\ feeds' = loop.feeds
                            /\ poll_tasks' = poll_tasks \cup loop.tasks
                            /\ bills_poll' =
                                   IF loop.tasks = {}
                                   THEN [seen EXCEPT !.pc = "idle",
                                                     !.outcome = "returned"]
                                   ELSE [seen EXCEPT !.pc = "gather"]
    /\ UNCHANGED <<listeners, stored_updates, stored_publications, first_index,
                   pub_poll, fetch_tasks, ops>>
    /\ SnapshotKept
    /\ UNCHANGED outsideBills

\* the application registers a Feed for a bill that has none, in the list
\* get_feeds() hands out
TrackFeed(bill) ==
    /\ Quiet
    /\ \A i \in DOMAIN feeds : feeds[i].bill_url # bill
    /\ feeds' = Append(feeds, NewFeed(bill))
    /\ UNCHANGED <<tracker_last_update, listeners, stored_updates,
                   stored_publications, first_index, bills_poll, poll_tasks,
                   pub_poll, fetch_tasks, wm_start, probe, ops>>
    /\ UNCHANGED outsideBills

\* _poll_task(feed, item) is called on a tracked Feed with an entry of its
\* bill, outside a poll cycle
CallPollTask(feed, item) ==
    /\ Quiet
    /\ ops < MaxOps
    /\ ops' = ops + 1
    /\ item.bill = feeds[feed].bill_url
    /\ poll_tasks' = {NewPollTask(0, 0, feed, item)}
    /\ UNCHANGED <<tracker_last_update, feeds, listeners, stored_updates,
                   stored_publications, first_index, bills_poll,
                   pub_poll, fetch_tasks, wm_start, probe>>
    /\ UNCHANGED outsideBills

\* the poll cycle that gathers task t, after t has ended: the gather (and
\* the cycle) ends when t raised or when t was its last task
BillsPollAfter(t, raised) ==
    LET others == {u \in poll_tasks : u # t /\ u.poll = t.poll}
    IN  IF bills_poll.pc = "gather" /\ bills_poll.n = t.poll
        THEN IF raised
             THEN [bills_poll EXCEPT !.pc = "idle", !.outcome = "raised"]
             ELSE IF others = {}
             THEN [bills_poll EXCEPT !.pc = "idle", !.outcome = "returned"]
             ELSE bills_poll
        ELSE bills_poll

PollTaskEnds(t, raised) ==
    /\ poll_tasks' = poll_tasks \ {t}
    /\ bills_poll' = BillsPollAfter(t, raised)

\* task t goes on as u, having started that many listener handlers
PollTaskBecomes(t, u, started) ==
    /\ poll_tasks' = (poll_tasks \ {t}) \cup {u}
    /\ bills_poll' = IF t.poll > 0 /\ t.poll = bills_poll.n
                     THEN [bills_poll EXCEPT !.dispatched = @ + started]
                     ELSE bills_poll

\* the first listener after position k that meets the conditions of update,
\* 0 when there is none
NextListenerMutant(k, update) == IF k < Len(listeners) THEN k + 1 ELSE 0

NextMatching(k, update) ==
    IF \E i \in (k + 1)..Len(listeners) : MeetsConditions(listeners[i], update)
    THEN CHOOSE i \in (k + 1)..Len(listeners) :
             /\ MeetsConditions(listeners[i], update)
             /\ \A j \in (k + 1)..(i - 1) : ~MeetsConditions(listeners[j], update)
    ELSE 0

\* _poll_task begins: process_poll_item decides whether the entry is an
\* update (and moves the Feed's last_update), then has_update_stored is asked
PollTaskStart(t) ==
    /\ t.pc = "start"
    /\ \A u \in poll_tasks : (u.poll = t.poll /\ u.pc = "start") => u.num >= t.num
    /\ LET r == ProcessPollItem(feeds[t.feed], t.item)
       IN  /\ feeds' = [feeds EXCEPT ![t.feed] = r.feed]
           /\ IF r.update = <<>>
              THEN /\ PollTaskEnds(t, FALSE)
                   /\ probe' = [probe EXCEPT !.discarded = @ + 1]
              ELSE /\ PollTaskBecomes(t, [t EXCEPT !.update = r.update,
                                                   !.pc = "has_update_stored"], 0)
                   /\ UNCHANGED probe
    /\ UNCHANGED <<tracker_last_update, listeners, stored_updates,
                   stored_publications, first_index, pub_poll, fetch_tasks, ops>>
    /\ SnapshotKept
    /\ UNCHANGED outsideBills

\* how many of the handler coroutines of a _poll_task have begun to run:
\* TrackerListener.handle is an async def, so the call in the loop only
\* creates the coroutine, and all of them start in the gather after the loop
StartedOnCallMutant(handlers, gathered) == Len(handlers)

Started(handlers, gathered) == IF gathered THEN Len(handlers) ELSE 0

\* has_update_stored answers (or raises): a stored update ends the task; for
\* a new one the loop over the listeners runs up to its first
\* add_feed_update, or, with no matching listener, to the end of the task
PollTaskStored(t) ==
    /\ t.pc = "has_update_stored"
    /\ \/ PollTaskEnds(t, TRUE)
       \/ LET first == NextMatching(0, t.update[1])
          IN  IF t.update[1] \in stored_updates \/ first = 0
              THEN PollTaskEnds(t, FALSE)
              ELSE PollTaskBecomes(t, [t EXCEPT !.listener = first,
                                                !.handlers = <<first>>,
                                                !.started = Started(<<first>>, FALSE),
                                                !.pc = "add_feed_update"], 0)
    /\ UNCHANGED <<tracker_last_update, feeds, listeners, stored_updates,
                   stored_publications, first_index, pub_poll, fetch_tasks, probe, ops>>
    /\ SnapshotKept
    /\ UNCHANGED outsideBills

\* add_feed_update returns (or raises): the loop goes on to the next
\* matching listener and its add_feed_update, or, after the last one, the
\* handlers are gathered and start running
PollTaskAdded(t) ==
    /\ t.pc = "add_feed_update"
    /\ \/ /\ PollTaskEnds(t, TRUE)
          /\ UNCHANGED <<stored_updates, probe>>
       \/ LET next == NextMatching(t.listener, t.update[1])
              added == IF t.poll > 0 /\ t.item = ProbeEntry
                       THEN [probe EXCEPT !.added = @ + 1] ELSE probe
          IN  /\ stored_updates' = stored_updates \cup {t.update[1]}
              /\ IF next # 0
                 THEN /\ PollTaskBecomes(t, [t EXCEPT !.listener = next,
                                               !.handlers = Append(@, next),
                                               !.started =
                                                   Started(Append(t.handlers, next), FALSE),
                                               !.adds = @ + 1], 0)
                      /\ probe' = added
                 ELSE /\ PollTaskBecomes(t, [t EXCEPT !.pc = "handlers",
                                                      !.started =
                                                          Started(t.handlers, TRUE),
                                                      !.adds = @ + 1],
                                         Len(t.handlers))
                      /\ probe' = IF t.poll > 0 /\ t.item = ProbeEntry
                                  THEN [added EXCEPT !.handled = @ + Len(t.handlers)]
                                  ELSE added
    /\ UNCHANGED <<tracker_last_update, feeds, listeners,
                   stored_publications, first_index, pub_poll, fetch_tasks, ops>>
    /\ SnapshotKept
    /\ UNCHANGED outsideBills

\* the gather of the handlers ends: all returned, or one raised
PollTaskHandled(t) ==
    /\ t.pc = "handlers"
    /\ \/ PollTaskEnds(t, FALSE)
       \/ PollTaskEnds(t, TRUE)
    /\ UNCHANGED <<tracker_last_update, feeds, listeners, stored_updates,
                   stored_publications, first_index, pub_poll, fetch_tasks, probe, ops>>
    /\ SnapshotKept
    /\ UNCHANGED outsideBills

\* PublicationsTracker.__init__: the default of pffl
Pffl == 10

\* Feed.fetch_newest_publications: the default of update_limit
DefaultUpdateLimit == 20

\* the listeners registered with the PublicationsTracker
PublicationListeners == <<"p1", "p2">>

\* publication lists, newest first, of at most MaxItems distinct dates
NewestFirstDates ==
    {q \in DistinctSeqs(Dates, MaxItems) :
         \A i \in 1..(Len(q) - 1) : q[i] >= q[i + 1]}

\* what a bill's own feed may answer: its items are publication dates
BillFeedResponses ==
    [status : {200, 500}, lastbuilddate : Dates, items : NewestFirstDates]

\* the for loop of Feed.fetch_newest_publications (lines 259-271)
RECURSIVE ScanPublications(_, _, _, _)
ScanNoLimitMutant(items, results, watermark, update_limit) ==
    SelectSeq(items, LAMBDA d : ~(watermark # 0 /\ d < watermark))

ScanPublications(items, results, watermark, update_limit) ==
    IF items = <<>> THEN results
    ELSE IF watermark # 0 /\ Head(items) < watermark THEN results
    ELSE IF Len(results) >= update_limit THEN results
    ELSE ScanPublications(Tail(items), Append(results, Head(items)),
                          watermark, update_limit)

\* Feed.fetch_newest_publications, on a 200 response: the Feed afterwards
\* and the list it returns
FetchAlwaysScansMutant(feed, resp, update_limit) ==
    [feed |-> [feed EXCEPT !.last_publication_update = resp.lastbuilddate],
     results |-> [i \in DOMAIN resp.items |->
                      [bill |-> feed.bill_url, publication |-> resp.items[i]]]]

FetchNewestPublications(feed, resp, update_limit) ==
    IF /\ feed.last_publication_update # 0
       /\ feed.last_publication_update >= resp.lastbuilddate
    THEN [feed |-> feed, results |-> <<>>]
    ELSE [feed |-> [feed EXCEPT !.last_publication_update = resp.lastbuilddate],
          results |-> [i \in DOMAIN ScanPublications(resp.items, <<>>,
                                        feed.last_publication_update, update_limit)
                       |-> [bill |-> feed.bill_url,
                            publication |->
                                ScanPublications(resp.items, <<>>,
                                    feed.last_publication_update, update_limit)[i]]]]

\* lines 644-645, at the end of a poll that did not raise
PubPollReturned(p) ==
    [p EXCEPT !.pc = "idle", !.outcome = "returned", !.tasks = <<>>]

PubPollRaised(p) ==
    [p EXCEPT !.pc = "idle", !.outcome = "raised", !.tasks = <<>>]

\* PublicationsTracker.poll is called: one _fetch_task per Feed of the
\* tracker is created and gathered, each starting its fetch with the limit
\* that _first_index selects; with no Feed both gathers are empty
PubPollStart ==
    /\ Quiet
    /\ ops < MaxOps
    /\ ops' = ops + 1
    /\ wm_start' = IF feeds = <<>> THEN NoSnapshot ELSE Watermarks
    /\ fetch_tasks' = {[poll |-> pub_poll.n + 1, feed |-> i, pc |-> "get",
                        update_limit |-> IF first_index THEN Pffl
                                         ELSE DefaultUpdateLimit,
                        first |-> feeds[i].bill_url \notin probe.fetched,
                        updates |-> <<>>] : i \in DOMAIN feeds}
    /\ probe' = [probe EXCEPT !.fetched =
                     @ \cup {feeds[i].bill_url : i \in DOMAIN feeds}]
    /\ IF feeds = <<>>
       THEN /\ pub_poll' = [pc |-> "idle", outcome |-> "returned",
                            n |-> pub_poll.n + 1, tasks |-> <<>>]
            /\ first_index' = FALSE
       ELSE /\ pub_poll' = [pc |-> "fetch", outcome |-> "none",
                            n |-> pub_poll.n + 1, tasks |-> <<>>]
            /\ UNCHANGED first_index
    /\ UNCHANGED <<tracker_last_update, feeds, listeners, stored_updates,
                   stored_publications, bills_poll, poll_tasks>>
    /\ UNCHANGED outsideBills

\* the poll that gathers fetch task t, with the listener tasks t appended,
\* after t has ended: a raise ends the poll; after the last fetch task the
\* listener tasks are gathered, and with none of them the poll returns
PubPollAfter(t, raised, tasks) ==
    LET others == {u \in fetch_tasks : u # t /\ u.poll = t.poll}
    IN  IF pub_poll.pc = "fetch" /\ pub_poll.n = t.poll
        THEN IF raised
             THEN PubPollRaised(pub_poll)
             ELSE IF others # {}
             THEN [pub_poll EXCEPT !.tasks = tasks]
             ELSE IF tasks = <<>>
             THEN PubPollReturned(pub_poll)
             ELSE [pub_poll EXCEPT !.tasks = tasks, !.pc = "dispatch"]
        ELSE pub_poll

FetchTaskEnds(t, raised, tasks) ==
    /\ fetch_tasks' = fetch_tasks \ {t}
    /\ pub_poll' = PubPollAfter(t, raised, tasks)
    /\ first_index' = IF pub_poll'.pc = "idle" /\ pub_poll'.outcome = "returned"
                      THEN FALSE ELSE first_index

FetchTaskBecomes(t, u, tasks) ==
    /\ fetch_tasks' = (fetch_tasks \ {t}) \cup {u}
    /\ pub_poll' = IF pub_poll.pc = "fetch" /\ pub_poll.n = t.poll
                   THEN [pub_poll EXCEPT !.tasks = tasks] ELSE pub_poll
    /\ UNCHANGED first_index

\* the bill's feed answers a _fetch_task: a non-200 status raises; else
\* fetch_newest_publications returns its list and has_publication_update is
\* asked about the first update, if any
PubFetchResponse(t) ==
    /\ t.pc = "get"
    /\ \E resp \in BillFeedResponses :
           IF resp.status # 200
           THEN /\ FetchTaskEnds(t, TRUE, pub_poll.tasks)
                /\ UNCHANGED feeds
           ELSE LET r == FetchNewestPublications(feeds[t.feed], resp,
                                                 t.update_limit)
                IN  /\ feeds' = [feeds EXCEPT ![t.feed] = r.feed]
                    /\ IF r.results = <<>>
                       THEN FetchTaskEnds(t, FALSE, pub_poll.tasks)
                       ELSE FetchTaskBecomes(t,
                                [t EXCEPT !.updates = r.results,
                                          !.pc = "has_publication_update"],
                                pub_poll.tasks)
    /\ UNCHANGED <<tracker_last_update, listeners, stored_updates,
                   stored_publications, bills_poll, poll_tasks, probe, ops>>
    /\ SnapshotKept
    /\ UNCHANGED outsideBills

\* _fetch_task t turns to the update after the one it holds
FetchTaskNext(t, tasks) ==
    IF Len(t.updates) = 1
    THEN FetchTaskEnds(t, FALSE, tasks)
    ELSE FetchTaskBecomes(t, [t EXCEPT !.updates = Tail(@),
                                       !.pc = "has_publication_update"], tasks)

\* has_publication_update answers (or raises): a stored update is passed
\* over, a new one goes to add_publication_update
PubHasAnswer(t) ==
    /\ t.pc = "has_publication_update"
    /\ \/ FetchTaskEnds(t, TRUE, pub_poll.tasks)
       \/ IF Head(t.updates) \in stored_publications
          THEN FetchTaskNext(t, pub_poll.tasks)
          ELSE FetchTaskBecomes(t, [t EXCEPT !.pc = "add_publication_update"],
                                pub_poll.tasks)
    /\ UNCHANGED <<tracker_last_update, feeds, listeners, stored_updates,
                   stored_publications, bills_poll, poll_tasks, probe, ops>>
    /\ SnapshotKept
    /\ UNCHANGED outsideBills

\* add_publication_update returns (or raises): one _task per listener is
\* appended for the update
PubAdded(t) ==
    /\ t.pc = "add_publication_update"
    /\ \/ /\ FetchTaskEnds(t, TRUE, pub_poll.tasks)
          /\ UNCHANGED stored_publications
       \/ /\ stored_publications' = stored_publications \cup {Head(t.updates)}
          /\ FetchTaskNext(t, pub_poll.tasks \o
                 [i \in DOMAIN PublicationListeners |->
                      [update |-> Head(t.updates),
                       listener |-> PublicationListeners[i]]])
    /\ UNCHANGED <<tracker_last_update, feeds, listeners, stored_updates,
                   bills_poll, poll_tasks, probe, ops>>
    /\ SnapshotKept
    /\ UNCHANGED outsideBills

\* the gather of the listener tasks ends: all returned, or one raised
PubDispatched ==
    /\ pub_poll.pc = "dispatch"
    /\ \/ /\ pub_poll' = PubPollReturned(pub_poll)
          /\ first_index' = FALSE
       \/ /\ pub_poll' = PubPollRaised(pub_poll)
          /\ UNCHANGED first_index
    /\ UNCHANGED <<tracker_last_update, feeds, listeners, stored_updates,
                   stored_publications, bills_poll, poll_tasks, fetch_tasks, probe, ops>>
    /\ SnapshotKept
    /\ UNCHANGED outsideBills

BillsNext ==
    \/ BillsPollStart
    \/ BillsPollResponse
    \/ \E b \in TrackedBills : TrackFeed(b)
    \/ \E i \in DOMAIN feeds : \E item \in Entries : CallPollTask(i, item)
    \/ \E t \in poll_tasks : PollTaskStart(t)
    \/ \E t \in poll_tasks : PollTaskStored(t)
    \/ \E t \in poll_tasks : PollTaskAdded(t)
    \/ \E t \in poll_tasks : PollTaskHandled(t)
    \/ PubPollStart
    \/ \E t \in fetch_tasks : PubFetchResponse(t)
    \/ \E t \in fetch_tasks : PubHasAnswer(t)
    \/ \E t \in fetch_tasks : PubAdded(t)
    \/ PubDispatched

-----------------------------------------------------------------------------
(* UKParliament: lazy_load_member, get_commons_division,                   *)
(* get_lords_division, the division searches and _populate_*_division      *)

\* the number of calls the application makes
MaxPopOps == 2

\* the member ids the upstream knows
MemberIds == {1, 2, 3}

\* the members get_member_by_id finds in the lists that load() has indexed
IndexedMembers == {1}

\* the search terms the application uses: none, and "L"
DivisionTerms == {<<>>, <<"L">>}

\* what a division search, through load_data, may get as items
SearchItems == {<<>>, <<1>>, <<2, 1>>}

\* the member id lists in the upstream's JSON of a division: odd divisions
\* have tellers, even ones have none
UpstreamIds(house, id) ==
    IF id % 2 = 1
    THEN [aye_teller_ids |-> <<2>>, no_teller_ids |-> <<3>>,
          aye_ids |-> <<1, 2>>, no_ids |-> <<3>>,
          no_vote_ids |-> IF house = "commons" THEN <<1>> ELSE <<>>]
    ELSE [aye_teller_ids |-> <<>>, no_teller_ids |-> <<>>,
          aye_ids |-> <<3, 2>>, no_ids |-> <<>>, no_vote_ids |-> <<>>]

\* CommonsDivision.__init__ / LordsDivision.__init__: the id lists are
\* taken from the JSON, the member lists start empty; lookup_failed is
\* history: a member lookup for this object was answered with a failure
NewDivision(house, id) ==
    [house |-> house, id |-> id, ids |-> UpstreamIds(house, id),
     aye_tellers |-> <<>>, no_tellers |-> <<>>, aye_members |-> <<>>,
     no_members |-> <<>>, didnt_vote |-> <<>>, lookup_failed |-> FALSE]

\* _populate_lords_division: the id list each gather resolves, and the
\* member list its result is set as
LordsStages ==
    <<[ids |-> "aye_teller_ids", set |-> "aye_tellers"],
      [ids |-> "no_teller_ids", set |-> "no_tellers"],
      [ids |-> "no_ids", set |-> "no_members"],
      [ids |-> "aye_ids", set |-> "aye_members"]>>

\* _populate_commons_division: the resolved aye tellers are passed to
\* set_aye_members, and the resolved no tellers to no setter
CommonsStages ==
    <<[ids |-> "aye_teller_ids", set |-> "aye_members"],
      [ids |-> "no_teller_ids", set |-> "none"],
      [ids |-> "aye_ids", set |-> "aye_members"],
      [ids |-> "no_ids", set |-> "no_members"]>>

StagesOf(division) ==
    IF division.house = "lords" THEN LordsStages ELSE CommonsStages

\* the ids the current gather of call c resolves
StageIdsOf(c) == c.division.ids[StagesOf(c.division)[c.stage].ids]

\* bills.division_task up to its first await: a member that
\* get_member_by_id finds, or that lazy_load_member finds in
\* old_member_cache, is appended at once
NoAwait(m) == m \in IndexedMembers \/ m \in old_member_cache

\* lazy_load_member, lines 399-407: what a response status leads to
LazyLoadNeverRaisesMutant(status) == "member"

LazyLoadOutcome(status) == IF status # 200 THEN "raise" ELSE "member"

PopIdle == [op |-> "none", pc |-> "idle"]

NewPopCall(op, house, id, term, pc) ==
    [op |-> op, house |-> house, id |-> id, term |-> term, pc |-> pc,
     queue |-> <<>>, done |-> <<>>, division |-> NewDivision(house, id),
     stage |-> 1, members |-> <<>>, pending |-> {}, failed |-> FALSE]

\* the gather of the current stage has ended: its list is handed to the
\* stage's setter and the next stage, if any, follows
StageDone(c) ==
    LET st == StagesOf(c.division)[c.stage]
        last == c.stage = Len(StagesOf(c.division))
    IN  [c EXCEPT !.division = IF st.set = "none" THEN @
                               ELSE [@ EXCEPT ![st.set] = c.members],
                  !.members = <<>>,
                  !.stage = IF last THEN @ ELSE @ + 1,
                  !.pc = IF last THEN "populated" ELSE "stage_start"]

\* call c runs on until it awaits a member response or has finished: a
\* stage whose members all resolve without an await ends at once, a
\* populated division ends get_*_division and, in a search, is appended to
\* the result before the next item is populated
RECURSIVE Advance(_)
Advance(c) ==
    IF c.pc = "stage_start"
    THEN LET ids == StageIdsOf(c)
             waiting == {i \in DOMAIN ids : ~NoAwait(ids[i])}
             started == [c EXCEPT !.members = SelectSeq(ids, NoAwait),
                                  !.pending = waiting]
         IN  IF waiting # {}
             THEN [started EXCEPT !.pc = "populate"]
             ELSE Advance(StageDone(started))
    ELSE IF c.pc = "populated"
    THEN IF c.op = "get"
         THEN [c EXCEPT !.pc = "finished"]
         ELSE IF c.queue = <<>>
         THEN [c EXCEPT !.done = Append(@, c.division), !.pc = "finished"]
         ELSE Advance([c EXCEPT !.done = Append(@, c.division),
                                !.division = NewDivision(c.house, Head(c.queue)),
                                !.queue = Tail(@),
                                !.stage = 1,
                                !.pc = "stage_start"])
    ELSE c

PopReturn(c, value) ==
    [outcome |-> "returned", op |-> c.op, house |-> c.house, value |-> value,
     failed |-> c.failed]

\* call c raises: nothing is cached and nothing is returned
PopRaises(c) ==
    /\ pop_call' = PopIdle
    /\ pop_ret' = [outcome |-> "raised", op |-> c.op, house |-> c.house,
                   value |-> <<>>, failed |-> c.failed]
    /\ UNCHANGED <<division_cache, division_search_cache>>

\* call c, run on as far as it goes, is still waiting or has finished:
\* get_*_division caches the division under its id and returns it, a search
\* caches its list under the lower-cased term, if there is a term, and
\* returns it
PopProgress(c) ==
    IF c.pc # "finished"
    THEN /\ pop_call' = c
         /\ UNCHANGED <<pop_ret, division_cache, division_search_cache>>
    ELSE /\ pop_call' = PopIdle
         /\ IF c.op = "get"
            THEN /\ division_cache' = [division_cache EXCEPT ![c.id] = <<c.division>>]
                 /\ pop_ret' = PopReturn(c, c.division)
                 /\ UNCHANGED division_search_cache
            ELSE /\ division_search_cache' =
                        IF c.term # <<>>
                        THEN [division_search_cache EXCEPT
                                  ![<<c.house, Lower(c.term)>>] = <<c.done>>]
                        ELSE division_search_cache
                 /\ pop_ret' = PopReturn(c, c.done)
                 /\ UNCHANGED division_cache

PopInit ==
    /\ pop_call = PopIdle
    /\ pop_ret = [outcome |-> "none"]
    /\ old_member_cache = {}
    /\ division_search_cache =
           [k \in Houses \X {Lower(t) : t \in DivisionTerms} |-> <<>>]
    /\ member_loaded = {}
    /\ member_refetched = {}
    /\ pop_ops = 0

\* the member endpoint is asked for m (history)
MemberRequested(m, status) ==
    /\ member_loaded' = IF status = 200 THEN member_loaded \cup {m}
                        ELSE member_loaded
    /\ member_refetched' = IF m \in member_loaded
                           THEN member_refetched \cup {m}
                           ELSE member_refetched

\* get_commons_division / get_lords_division is called: a division cached
\* under the id is returned, else the division is requested
CallGetDivision(house, id) ==
    /\ pop_call = PopIdle
    /\ pop_ops < MaxPopOps
    /\ pop_ops' = pop_ops + 1
    /\ LET c == NewPopCall("get", house, id, <<>>, "request")
       IN  IF division_cache[id] # <<>>
           THEN /\ pop_ret' = PopReturn(c, division_cache[id][1])
                /\ UNCHANGED pop_call
           ELSE /\ pop_call' = c
                /\ UNCHANGED pop_ret
    /\ UNCHANGED <<division_cache, division_search_cache, old_member_cache,
                   member_loaded, member_refetched>>
    /\ UNCHANGED outsidePop

\* the division endpoint answers: a non-200 status raises, else the
\* division object is built and its population begins
DivisionResponse ==
    /\ pop_call.pc = "request"
    /\ \E status \in {200, 500} :
           IF status # 200
           THEN PopRaises(pop_call)
           ELSE PopProgress(Advance([pop_call EXCEPT !.pc = "stage_start"]))
    /\ UNCHANGED <<old_member_cache, member_loaded, member_refetched, pop_ops>>
    /\ UNCHANGED outsidePop

\* the member endpoint answers the lazy_load_member call of the task at
\* position i of the current gather: on a failure the task, the gather, the
\* population and the call raise (the gather's other tasks then only
\* append to a list that is dropped); else the member is appended to the
\* stage's list, and the last task to end ends the gather
MemberResponse(i) ==
    /\ pop_call.pc = "populate"
    /\ i \in pop_call.pending
    /\ \E status \in {200, 500} :
           LET m == StageIdsOf(pop_call)[i]
               c == [pop_call EXCEPT
                         !.failed = @ \/ status # 200,
                         !.division.lookup_failed = @ \/ status # 200]
               appended == [c EXCEPT !.members = Append(@, m),
                                     !.pending = @ \ {i}]
           IN  /\ MemberRequested(m, status)
               /\ IF LazyLoadOutcome(status) = "raise"
                  THEN PopRaises(c)
                  ELSE PopProgress(IF appended.pending = {}
                                   THEN Advance(StageDone(appended))
                                   ELSE appended)
    /\ UNCHANGED <<old_member_cache, pop_ops>>
    /\ UNCHANGED outsidePop

\* search_for_commons_divisions / search_for_lords_divisions is called: with
\* a term, a list cached under the lower-cased term is returned; else the
\* total is determined and load_data is awaited
CallSearch(house, term) ==
    /\ pop_call = PopIdle
    /\ pop_ops < MaxPopOps
    /\ pop_ops' = pop_ops + 1
    /\ LET c == NewPopCall("search", house, 0, term, "load_data")
           key == <<house, Lower(term)>>
       IN  IF term # <<>> /\ division_search_cache[key] # <<>>
           THEN /\ pop_ret' = PopReturn(c, division_search_cache[key][1])
                /\ UNCHANGED pop_call
           ELSE /\ pop_call' = c
                /\ UNCHANGED pop_ret
    /\ UNCHANGED <<division_cache, division_search_cache, old_member_cache,
                   member_loaded, member_refetched>>
    /\ UNCHANGED outsidePop

\* get_total_results or load_data raises, or load_data returns the items:
\* each item is built and populated in turn
SearchLoaded ==
    /\ pop_call.pc = "load_data"
    /\ \/ PopRaises(pop_call)
       \/ \E items \in SearchItems :
              IF items = <<>>
              THEN PopProgress([pop_call EXCEPT !.pc = "finished"])
              ELSE PopProgress(Advance(
                       [pop_call EXCEPT
                            !.division = NewDivision(pop_call.house, Head(items)),
                            !.queue = Tail(items),
                            !.pc = "stage_start"]))
    /\ UNCHANGED <<old_member_cache, member_loaded, member_refetched, pop_ops>>
    /\ UNCHANGED outsidePop

\* lazy_load_member is called by the application: a member found in
\* old_member_cache is returned, else the member is requested
CallLazyLoadMember(m) ==
    /\ pop_call = PopIdle
    /\ pop_ops < MaxPopOps
    /\ pop_ops' = pop_ops + 1
    /\ LET c == NewPopCall("member", "none", m, <<>>, "member_request")
       IN  IF m \in old_member_cache
           THEN /\ pop_ret' = PopReturn(c, m)
                /\ UNCHANGED pop_call
           ELSE /\ pop_call' = c
                /\ UNCHANGED pop_ret
    /\ UNCHANGED <<division_cache, division_search_cache, old_member_cache,
                   member_loaded, member_refetched>>
    /\ UNCHANGED outsidePop

\* the member endpoint answers the application's lazy_load_member call: a
\* non-200 status raises, else the PartyMember is built and returned;
\* old_member_cache is not written
LazyLoadResponse ==
    /\ pop_call.pc = "member_request"
    /\ \E status \in {200, 500} :
           /\ MemberRequested(pop_call.id, status)
           /\ IF LazyLoadOutcome(status) = "raise"
              THEN PopRaises([pop_call EXCEPT !.failed = TRUE])
              ELSE /\ pop_call' = PopIdle
                   /\ pop_ret' = PopReturn([pop_call EXCEPT !.failed = status # 200],
                                           pop_call.id)
                   /\ UNCHANGED <<division_cache, division_search_cache>>
    /\ UNCHANGED <<old_member_cache, pop_ops>>
    /\ UNCHANGED outsidePop

\* the positions of the current gather whose lazy_load_member is in flight
Pending == IF pop_call.pc = "populate" THEN pop_call.pending ELSE {}

PopNext ==
    \/ \E h \in Houses : \E id \in DivisionIds : CallGetDivision(h, id)
    \/ DivisionResponse
    \/ \E i \in Pending : MemberResponse(i)
    \/ \E h \in Houses : \E term \in DivisionTerms : CallSearch(h, term)
    \/ SearchLoaded
    \/ \E m \in MemberIds : CallLazyLoadMember(m)
    \/ LazyLoadResponse

-----------------------------------------------------------------------------
(* The TTLCache objects of UKParliament, through get_bill and the other    *)
(* functions that read a cache, fetch on a miss and write the cache        *)

\* the number of lookups and bulk fetches the application makes
MaxCacheOps == 3

\* how far the clock runs, in half ttls
MaxHalfTtls == 2

\* UKParliament.__init__: the caches and their parameters
CacheConfigs ==
    {[name |-> "old_member_cache", maxsize |-> 90, ttl |-> 600],
     [name |-> "bill_search_cache", maxsize |-> 90, ttl |-> 180],
     [name |-> "division_cache", maxsize |-> 90, ttl |-> 600],
     [name |-> "voting_history_cache", maxsize |-> 90, ttl |-> 3600],
     [name |-> "division_search_commons_cache", maxsize |-> 90, ttl |-> 300],
     [name |-> "division_search_lords_cache", maxsize |-> 90, ttl |-> 300],
     [name |-> "bills_cache", maxsize |-> 30, ttl |-> 300],
     [name |-> "election_results_cache", maxsize |-> 90, ttl |-> 300]}

\* the key whose lookups the history variable cache_probe records; the
\* other keys are 1, 2, ... in the order in which they are first asked for
ProbeKey == 0

\* TTLCache: an entry is gone once the timer has reached its expiry time
NeverExpiredMutant(entry, now) == FALSE

Expired(entry, now) == ~(now < entry.expires)

\* TTLCache.expire(time): the expired entries are removed
Expire(entries, now) ==
    LET live(e) == ~Expired(e, now) IN SelectSeq(entries, live)

\* the position of key among the entries, 0 when it has none
PositionOf(entries, key) ==
    IF \E i \in DOMAIN entries : entries[i].key = key
    THEN CHOOSE i \in DOMAIN entries : entries[i].key = key
    ELSE 0

Without(entries, i) ==
    [j \in 1..(Len(entries) - 1) |-> IF j < i THEN entries[j] ELSE entries[j + 1]]

\* cache.get(key): whether the key has an entry that has not expired
CacheHas(entries, key, now) ==
    /\ PositionOf(entries, key) # 0
    /\ ~Expired(entries[PositionOf(entries, key)], now)

\* the entries after cache.get(key) has returned the key's value: the key
\* is now the most recently used
Touched(entries, key) ==
    Append(Without(entries, PositionOf(entries, key)),
           entries[PositionOf(entries, key)])

\* Cache.__setitem__ for a new key: while the cache is full the least
\* recently used entry is removed
MakeRoom(entries, maxsize) ==
    IF Len(entries) >= maxsize
    THEN SubSeq(entries, Len(entries) - maxsize + 2, Len(entries))
    ELSE entries

\* cache[key] = value at time now: expired entries are removed, room is
\* made, and the key expires ttl later
CacheSet(entries, key, now, cfg) ==
    LET live == Expire(entries, now)
        rest == IF PositionOf(live, key) # 0
                THEN Without(live, PositionOf(live, key))
                ELSE MakeRoom(live, cfg.maxsize)
    IN  Append(rest, [key |-> key, expires |-> now + cfg.ttl])

\* n keys not asked for before are fetched and cached, one after the other,
\* at the same reading of the timer: what n uses of CacheSet leave
SetFresh(entries, first, n, now, cfg) ==
    LET all == Expire(entries, now) \o
               [i \in 1..n |-> [key |-> first + i - 1,
                                expires |-> now + cfg.ttl]]
    IN  IF Len(all) > cfg.maxsize
        THEN SubSeq(all, Len(all) - cfg.maxsize + 1, Len(all))
        ELSE all

\* the cache in the specifications of the other components: bills_cache,
\* unused
CacheIdle ==
    /\ cache_cfg = [name |-> "bills_cache", maxsize |-> 30, ttl |-> 300]
    /\ cache = <<>>
    /\ clock = 0
    /\ next_key = 1
    /\ cache_probe = [inserted |-> -1, others |-> 0,
                      look |-> [result |-> "none"]]
    /\ cache_ops = 0

CacheInit ==
    /\ cache_cfg \in CacheConfigs
    /\ cache = <<>>
    /\ clock = 0
    /\ next_key = 1
    /\ cache_probe = [inserted |-> -1, others |-> 0,
                      look |-> [result |-> "none"]]
    /\ cache_ops = 0

\* half a ttl passes
Tick ==
    /\ clock < MaxHalfTtls * (cache_cfg.ttl \div 2)
    /\ clock' = clock + (cache_cfg.ttl \div 2)
    /\ UNCHANGED <<cache_cfg, cache, next_key, cache_probe, cache_ops>>
    /\ UNCHANGED outsideCache

\* get_bill (or another cache-backed function) is called for the probe key:
\* a cached value is returned; on a miss the upstream is asked, and a 200
\* answer is cached and returned while another status raises
LookupProbe ==
    /\ cache_ops < MaxCacheOps
    /\ cache_ops' = cache_ops + 1
    /\ LET hit == CacheHas(cache, ProbeKey, clock)
           look == [result |-> IF hit THEN "hit" ELSE "miss", at |-> clock,
                    inserted |-> cache_probe.inserted,
                    others |-> cache_probe.others]
       IN  IF hit
           THEN /\ cache' = Touched(cache, ProbeKey)
                /\ cache_probe' = [cache_probe EXCEPT !.look = look,
                                                      !.others = 0]
           ELSE \E status \in {200, 500} :
                    IF status # 200
                    THEN /\ cache_probe' = [cache_probe EXCEPT !.look = look]
                         /\ UNCHANGED cache
                    ELSE /\ cache' = CacheSet(cache, ProbeKey, clock, cache_cfg)
                         /\ cache_probe' = [inserted |-> clock, others |-> 0,
                                            look |-> look]
    /\ UNCHANGED <<cache_cfg, clock, next_key>>
    /\ UNCHANGED outsideCache

\* the function is called for n keys that were not asked for before, each
\* answered with 200
LookupOthers(n) ==
    /\ cache_ops < MaxCacheOps
    /\ cache_ops' = cache_ops + 1
    /\ cache' = SetFresh(cache, next_key, n, clock, cache_cfg)
    /\ next_key' = next_key + n
    /\ cache_probe' = [cache_probe EXCEPT !.others = @ + n]
    /\ UNCHANGED <<cache_cfg, clock>>
    /\ UNCHANGED outsideCache

CacheNext ==
    \/ Tick
    \/ LookupProbe
    \/ \E n \in {1, cache_cfg.maxsize - 1, cache_cfg.maxsize} : LookupOthers(n)

-----------------------------------------------------------------------------
(* TrackerListener.meets_conditions as a function of a listener's          *)
(* conditions and a feed item                                              *)

\* the conditions a listener can be registered with
ConditionSets ==
    SUBSET {"PUBLICATIONS", "LORDS", "COMMONS", "GOV_BILL", "PRI_BILL",
            "ROYAL_ASSENT", "ALL"}

\* the <category> texts of a feed item
CategoryTexts ==
    {<<>>,
     << <<"L", "o", "r", "d", "s">> >>,
     << <<"G", "o", "v">>, <<"C", "o", "m", "m", "o", "n", "s">> >>,
     << <<"L", "o", "r", "d", "s", " ", "G", "o", "v">> >>,
     << <<"G", "o", "v", " ", "C", "o", "m", "m", "o", "n", "s">> >>}

\* the p4:stage attribute of a feed item, <<>> when it is missing
StageTexts ==
    {<<>>,
     << <<"R", "o", "y", "a", "l", " ", "A", "s", "s", "e", "n", "t">> >>,
     << <<"A", "l", "l", " ", "R", "o", "y", "a", "l", " ", "a", "s", "s",
          "e", "n", "t">> >>,
     << <<"C", "o", "m", "m", "o", "n", "s">> >>}

\* FeedUpdate.__init__ on a feed item with these texts
UpdateOf(raw) ==
    [stage |-> raw.stage,
     categories |-> [i \in DOMAIN raw.categories |-> Lower(raw.categories[i])]]

MatchIdle ==
    /\ mc_in = [conditionals |-> {}, categories |-> <<>>, stage |-> <<>>]
    /\ mc_out = <<>>

MatchInit ==
    /\ mc_in \in [conditionals : ConditionSets, categories : CategoryTexts,
                   stage : StageTexts]
    /\ mc_out = <<>>

\* listener.meets_conditions(update) is called
CallMeetsConditions ==
    /\ mc_out = <<>>
    /\ mc_out' = <<MeetsConditions(mc_in.conditionals, UpdateOf(mc_in))>>
    /\ UNCHANGED <<mc_in, fp_in, fp_out>>
    /\ UNCHANGED outsideMatch

-----------------------------------------------------------------------------
(* Feed.fetch_newest_publications as called by one _fetch_task, for any    *)
(* watermark, limit and response                                           *)

\* the longest item list of a bill's feed
MaxFeedItems == 3

\* the limits fetch_newest_publications is called with
UpdateLimits == {1, 2, Pffl, DefaultUpdateLimit}

\* the item lists of a bill's feed, in feed order
ItemLists == UNION {[1..n -> Dates] : n \in 0..MaxFeedItems}

FetchIdle ==
    /\ fp_in = [watermark |-> 0, update_limit |-> DefaultUpdateLimit,
                resp |-> [status |-> 500, lastbuilddate |-> 1, items |-> <<>>]]
    /\ fp_out = <<>>

FetchInit ==
    /\ fp_in \in [watermark : {0} \cup Dates, update_limit : UpdateLimits,
                   resp : [status : {200, 500}, lastbuilddate : Dates,
                           items : ItemLists]]
    /\ fp_out = <<>>

\* _fetch_task awaits fetch_newest_publications(update_limit) on a Feed with
\* that watermark: a non-200 status raises; otherwise the task goes on to
\* has_publication_update for the first update, or ends when the list is empty
CallFetchNewestPublications ==
    /\ fp_out = <<>>
    /\ LET feed == [NewFeed(1) EXCEPT !.last_publication_update = fp_in.watermark]
           r == FetchNewestPublications(feed, fp_in.resp, fp_in.update_limit)
       IN  fp_out' =
               IF fp_in.resp.status # 200
               THEN <<[outcome |-> "raised",
                       last_publication_update |-> feed.last_publication_update,
                       results |-> <<>>, next |-> "ends"]>>
               ELSE <<[outcome |-> "returned",
                       last_publication_update |-> r.feed.last_publication_update,
                       results |-> [i \in DOMAIN r.results |->
                                        r.results[i].publication],
                       next |-> IF Len(r.results) > 0
                                THEN "has_publication_update" ELSE "ends"]>>
    /\ UNCHANGED <<fp_in, mc_in, mc_out>>
    /\ UNCHANGED outsideMatch

-----------------------------------------------------------------------------
(* BillsTracker.start_event_loop, PublicationsTracker.start_event_loop     *)
(* and dual_event_loop                                                     *)

\* the number of cycles a loop is followed for
MaxCycles == 3

LoopNames == {"bills", "publications", "dual"}

\* the polls main() awaits in one cycle, in order
PollsOf(l) ==
    IF l = "dual" THEN <<"b_tracker", "p_tracker">> ELSE <<"self">>

\* main() has just been entered for cycle number n
NewCycle(n) == [pc |-> "polling", step |-> 1, cycles |-> n, raised |-> 0]

LoopsInit ==
    /\ loops = [l \in LoopNames |-> NewCycle(1)]
    /\ div_loop = [pc |-> "main", cycles |-> 1, commons |-> 0, lords |-> 0]

\* the poll the loop awaits returns: the next poll of the cycle is awaited,
\* or asyncio.sleep(30) after the last one
LoopPollReturns(l) ==
    /\ loops[l].pc = "polling"
    /\ loops' = [loops EXCEPT ![l] =
                     IF loops[l].step < Len(PollsOf(l))
                     THEN [@ EXCEPT !.step = @ + 1]
                     ELSE [@ EXCEPT !.pc = "sleeping"]]
    /\ UNCHANGED div_loop
    /\ UNCHANGED outsideLoops

\* the poll the loop awaits raises: nothing catches the exception, it
\* leaves main() and every main() that awaits it, and the loop's coroutine
\* ends with it
LoopPollRaises(l) ==
    /\ loops[l].pc = "polling"
    /\ loops' = [loops EXCEPT ![l] = [@ EXCEPT !.pc = "stopped",
                                               !.raised = @ + 1]]
    /\ UNCHANGED div_loop
    /\ UNCHANGED outsideLoops

\* the 30 seconds are over: main() calls itself
LoopSleepOver(l) ==
    /\ loops[l].pc = "sleeping"
    /\ loops[l].cycles < MaxCycles
    /\ loops' = [loops EXCEPT ![l] = [NewCycle(loops[l].cycles + 1)
                                         EXCEPT !.raised = loops[l].raised]]
    /\ UNCHANGED div_loop
    /\ UNCHANGED outsideLoops

\* DivisionsTracker.start_event_loop: main() starts poll_commons() and
\* poll_lords() with ensure_future, without awaiting them, and sleeps
DivLoopStartsPolls ==
    /\ div_loop.pc = "main"
    /\ div_loop' = [div_loop EXCEPT !.pc = "sleeping",
                                    !.commons = @ + 1, !.lords = @ + 1]
    /\ UNCHANGED loops
    /\ UNCHANGED outsideLoops

\* a poll that the loop started returns or raises; the loop does not see it
DivLoopPollEnds(house) ==
    /\ div_loop[house] > 0
    /\ div_loop' = [div_loop EXCEPT ![house] = @ - 1]
    /\ UNCHANGED loops
    /\ UNCHANGED outsideLoops

\* the 30 seconds are over: main() calls itself
DivLoopSleepOver ==
    /\ div_loop.pc = "sleeping"
    /\ div_loop.cycles < MaxCycles
    /\ div_loop' = [div_loop EXCEPT !.pc = "main", !.cycles = @ + 1]
    /\ UNCHANGED loops
    /\ UNCHANGED outsideLoops

LoopsNext ==
    \/ \E l \in LoopNames :
           \/ LoopPollReturns(l)
           \/ LoopPollRaises(l)
           \/ LoopSleepOver(l)
    \/ DivLoopStartsPolls
    \/ \E house \in Houses : DivLoopPollEnds(house)
    \/ DivLoopSleepOver

-----------------------------------------------------------------------------
(* MemberFunctions._index: one _fetch_task per election result             *)

\* the longest list of election results
MaxResults == 3

Constituencies == {1, 2, 3}

\* lists of election results, each named by its constituency
ResultLists ==
    {r \in UNION {[1..n -> Constituencies] : n \in 0..MaxResults} :
         \A i, j \in DOMAIN r : i # j => r[i] # r[j]}

IndexIdle == idx = [pc |-> "idle"]

\* _index is called: the for loop creates one coroutine per result and
\* leaves the loop variable result_item at the last result (<<>> when the
\* list is empty); gather then starts every coroutine on its request
CallIndex(results) ==
    /\ idx.pc = "idle"
    /\ idx' = [pc |-> "gather", results |-> results,
               result_item |-> IF results = <<>> THEN <<>>
                               ELSE <<results[Len(results)]>>,
               fetched |-> [i \in DOMAIN results |-> <<>>]]
    /\ UNCHANGED outsideIndex

\* the request of the task created for results[i] is answered with 200: the
\* member of that constituency is built from the response and its
\* constituency is set from result_item
IndexFetchResponse(i) ==
    /\ idx.pc = "gather"
    /\ idx.fetched[i] = <<>>
    /\ idx' = [idx EXCEPT !.fetched[i] =
                   <<[represents |-> idx.results[i],
                      constituency |-> idx.result_item[1]]>>]
    /\ UNCHANGED outsideIndex

\* a request is answered with another status: the task raises, and so do
\* gather and _index
IndexFetchFails(i) ==
    /\ idx.pc = "gather"
    /\ idx.fetched[i] = <<>>
    /\ idx' = [idx EXCEPT !.pc = "raised"]
    /\ UNCHANGED outsideIndex

\* every task has returned: the members are appended in task order
IndexReturns ==
    /\ idx.pc = "gather"
    /\ \A i \in DOMAIN idx.results : idx.fetched[i] # <<>>
    /\ idx' = [idx EXCEPT !.pc = "returned"]
    /\ UNCHANGED outsideIndex

\* the tasks that gather is running
IndexTasks == IF idx.pc = "gather" THEN DOMAIN idx.results ELSE {}

IndexNext ==
    \/ \E results \in ResultLists : CallIndex(results)
    \/ \E i \in IndexTasks : IndexFetchResponse(i)
    \/ \E i \in IndexTasks : IndexFetchFails(i)
    \/ IndexReturns

-----------------------------------------------------------------------------
(* The cache locks of UKParliament: callers that run cache-backed          *)
(* functions at the same time                                              *)

LockCallers == {1, 2, 3}

\* the lock a function takes around its cache reads and writes
LockOf(function) ==
    CASE function = "get_bill" -> "bills_cache_lock"
      [] function = "get_commons_division" -> "division_cache_lock"
      [] function = "get_lords_division" -> "division_cache_lock"
      [] function = "get_voting_history" -> "voting_history_lock"

LockedFunctions ==
    {"get_bill", "get_commons_division", "get_lords_division",
     "get_voting_history"}

Locks == {LockOf(f) : f \in LockedFunctions}

\* Lock.acquire goes through when nobody holds the lock
AlwaysFreeMutant(lock) == TRUE

LockFree(lock) == holders[lock] = {}

LocksIdle ==
    /\ callers = [c \in LockCallers |-> [pc |-> "idle", bare |-> FALSE]]
    /\ holders = [l \in Locks |-> {}]
    /\ cached = {}

\* caller c goes on at pc; a call that has ended leaves nothing behind
CallerAt(c, pc) ==
    IF pc = "idle"
    THEN [callers EXCEPT ![c] = [pc |-> "idle", bare |-> callers[c].bare]]
    ELSE [callers EXCEPT ![c].pc = pc]

\* c calls a function, which comes to the `with lock:` around its cache
\* read; every caller of a function passes the same key, and the calls are
\* made within the ttl of the entries
CallLocked(c, function) ==
    /\ callers[c].pc = "idle"
    /\ callers' = [callers EXCEPT ![c] = [pc |-> "acquire_read",
                                          function |-> function,
                                          bare |-> callers[c].bare,
                                          hit |-> FALSE]]
    /\ UNCHANGED <<holders, cached>>
    /\ UNCHANGED outsideLocks

\* c enters a `with lock:` block
LockAcquire(c) ==
    /\ callers[c].pc \in {"acquire_read", "acquire_write"}
    /\ LockFree(LockOf(callers[c].function))
    /\ holders' = [holders EXCEPT ![LockOf(callers[c].function)] = @ \cup {c}]
    /\ callers' = CallerAt(c, IF callers[c].pc = "acquire_read" THEN "get"
                              ELSE "set")
    /\ UNCHANGED cached
    /\ UNCHANGED outsideLocks

\* c reads the cache (cache.get) or writes it (cache[key] = value), inside
\* the block; bare records an access made without holding the lock
LockedAccess(c) ==
    /\ callers[c].pc \in {"get", "set"}
    /\ callers' = [callers EXCEPT
                       ![c].pc = IF callers[c].pc = "get" THEN "release_read"
                                 ELSE "release_write",
                       ![c].bare = @ \/ c \notin holders[LockOf(callers[c].function)],
                       ![c].hit = IF callers[c].pc = "get"
                                  THEN LockOf(callers[c].function) \in cached
                                  ELSE @]
    /\ cached' = IF callers[c].pc = "set"
                 THEN cached \cup {LockOf(callers[c].function)}
                 ELSE cached
    /\ UNCHANGED holders
    /\ UNCHANGED outsideLocks

\* the end of a `with lock:` block releases the lock, before the function
\* returns or awaits its request
KeptMutant(lock, c) == holders

Released(lock, c) == [holders EXCEPT ![lock] = @ \ {c}]

\* c leaves the block: after a read the function returns the cached value
\* or goes on to its request; after a write it returns
LockRelease(c) ==
    /\ callers[c].pc \in {"release_read", "release_write"}
    /\ holders' = Released(LockOf(callers[c].function), c)
    /\ callers' = CallerAt(c, IF callers[c].pc = "release_read" /\ ~callers[c].hit
                              THEN "fetch" ELSE "idle")
    /\ UNCHANGED cached
    /\ UNCHANGED outsideLocks

\* the request of c is answered: with 200 the function comes to the
\* `with lock:` around its cache write, otherwise it raises
LockedFetchResponse(c) ==
    /\ callers[c].pc = "fetch"
    /\ \/ callers' = CallerAt(c, "acquire_write")
       \/ callers' = CallerAt(c, "idle")
    /\ UNCHANGED <<holders, cached>>
    /\ UNCHANGED outsideLocks

LocksNext ==
    \E c \in LockCallers :
        \/ \E function \in LockedFunctions : CallLocked(c, function)
        \/ LockAcquire(c)
        \/ LockedAccess(c)
        \/ LockRelease(c)
        \/ LockedFetchResponse(c)

-----------------------------------------------------------------------------
(* Specifications                                                          *)

\* load_data is called; everything else is as constructed
InitLoad == LoadInit /\ DivInit /\ BillsInit /\ PopInit /\ CacheIdle
            /\ MatchIdle /\ FetchIdle /\ LoopsInit /\ IndexIdle /\ LocksIdle

SpecLoad == InitLoad /\ [][LoadNext]_vars

\* the DivisionsTracker runs; no load_data call is made
InitDiv == LoadIdle /\ DivInit /\ BillsInit /\ PopInit /\ CacheIdle
            /\ MatchIdle /\ FetchIdle /\ LoopsInit /\ IndexIdle /\ LocksIdle

SpecDiv == InitDiv /\ [][DivNext]_vars

\* the DivisionsTracker run by start_event_loop, whose polls may overlap
SpecDivLoop == InitDiv /\ [][DivLoopNext]_vars

\* the BillsTracker and the PublicationsTracker run
InitBills == LoadIdle /\ DivInit /\ BillsInit /\ PopInit /\ CacheIdle
            /\ MatchIdle /\ FetchIdle /\ LoopsInit /\ IndexIdle /\ LocksIdle

SpecBills == InitBills /\ [][BillsNext]_vars

\* the application looks up divisions and members
InitPop == LoadIdle /\ DivInit /\ BillsInit /\ PopInit /\ CacheIdle
            /\ MatchIdle /\ FetchIdle /\ LoopsInit /\ IndexIdle /\ LocksIdle

SpecPop == InitPop /\ [][PopNext]_vars

\* one of the caches is used over time
InitCache == LoadIdle /\ DivInit /\ BillsInit /\ PopInit /\ CacheInit
             /\ MatchIdle /\ FetchIdle /\ LoopsInit /\ IndexIdle /\ LocksIdle

SpecCache == InitCache /\ [][CacheNext]_vars

\* meets_conditions is applied to one listener and one feed item
InitMatch == LoadIdle /\ DivInit /\ BillsInit /\ PopInit /\ CacheIdle
             /\ MatchInit /\ FetchIdle /\ LoopsInit /\ IndexIdle /\ LocksIdle

SpecMatch == InitMatch /\ [][CallMeetsConditions]_vars

\* one _fetch_task fetches the newest publications of one Feed
InitFetch == LoadIdle /\ DivInit /\ BillsInit /\ PopInit /\ CacheIdle
             /\ MatchIdle /\ FetchInit /\ LoopsInit /\ IndexIdle /\ LocksIdle

SpecFetch == InitFetch /\ [][CallFetchNewestPublications]_vars

\* _index is called on a list of election results
InitIndex == LoadIdle /\ DivInit /\ BillsInit /\ PopInit /\ CacheIdle
             /\ MatchIdle /\ FetchIdle /\ LoopsInit /\ IndexIdle /\ LocksIdle

SpecIndex == InitIndex /\ [][IndexNext]_vars

\* callers run cache-backed functions at the same time
InitLocks == LoadIdle /\ DivInit /\ BillsInit /\ PopInit /\ CacheIdle
             /\ MatchIdle /\ FetchIdle /\ LoopsInit /\ IndexIdle /\ LocksIdle

SpecLocks == InitLocks /\ [][LocksNext]_vars

\* the three scheduling loops run
InitLoops == LoadIdle /\ DivInit /\ BillsInit /\ PopInit /\ CacheIdle
             /\ MatchIdle /\ FetchIdle /\ LoopsInit /\ IndexIdle /\ LocksIdle

SpecLoops == InitLoops /\ [][LoopsNext]_vars

-----------------------------------------------------------------------------
(* Properties of DivisionsTracker, checked under SpecDiv                   *)

\* C5: with polls that do not overlap and a storage that remembers every
\* add_division and add_bill_division, a division that one poll passed to
\* the listeners is not passed to them again by a later poll.
C5_DivisionPassedOnce ==
    \A d \in Divisions : Cardinality(div_passed[d]) <= 1

\* C31: under start_event_loop, where a poll may start while the tasks of an
\* earlier poll are still between their division_stored check and their
\* storage write, a division is written to the storage and passed to the
\* listeners by at most one poll (every poll in div_passed made one storage
\* write of the division and one round of listener invocations).
C31_OnceDespiteOverlap ==
    \A d \in Divisions : \A p, q \in div_passed[d] : p = q

\* the positions of matching bills in a search result
Matches(bills, section) ==
    {i \in DOMAIN bills : StartsWith(BillTitle(bills[i]), section)}

\* C6: when several bills of the search result have a title that starts
\* with the bill section, the bill associated with the division is the first
\* of them in search-result order.
C6_FirstMatchWins ==
    \A t \in div_tasks :
        LET section == BillSection(DivisionTitle(t.division[1]))
        IN  (t.bills # <<>> /\ Cardinality(Matches(t.bills[1], section)) > 1)
                => \A i \in Matches(t.bills[1], section) :
                       (\A j \in Matches(t.bills[1], section) : i <= j)
                           => t.bill = t.bills[1][i]

\* the division_tasks that are running, and the one that ended last
TaskViews ==
    {Ended(t, "running")[1] : t \in div_tasks} \cup Range(div_last)

\* C18: a division_task whose division is not stored persists nothing and
\* invokes no listener when its bill's (bill id, division) pair is reported
\* as stored; otherwise it makes exactly one storage write, add_bill_division
\* when a bill is associated and add_division when none is.
C18_OneStorageWrite ==
    \A r \in TaskViews :
        /\ r.at = "bill_division_stored" =>
               (r.bill # 0 /\ r.writes = <<>> /\ r.invoked = <<>>)
        /\ r.at = "listeners" =>
               r.writes = IF r.bill # 0
                          THEN << <<"add_bill_division", r.bill, r.division[1]>> >>
                          ELSE << <<"add_division", r.division[1]>> >>
        /\ r.at \notin {"listeners"} => r.writes = <<>>

\* a task has returned without a write because an earlier task had written
\* its (bill id, division) pair with add_bill_division
C18_Witness ==
    /\ div_last # <<>>
    /\ div_last[1].at = "bill_division_stored"
    /\ div_last[1].how = "returned"
    /\ div_last[1].writes = <<>>
    /\ <<div_last[1].bill, div_last[1].division[1]>> \in stored_bill_divisions

\* C19: division_task passes a new division to every listener of exactly one
\* listener set, once each: lords_listeners for a LordsDivision object,
\* commons_listeners otherwise, and to no listener of the other set.
C19_OneListenerSet ==
    \A r \in TaskViews :
        /\ r.at # "listeners" => r.invoked = <<>>
        /\ r.at = "listeners" =>
               IF r.division[1].house = "lords"
               THEN /\ r.invoked = lords_listeners
                    /\ Range(r.invoked) \cap Range(commons_listeners) = {}
               ELSE /\ r.invoked = commons_listeners
                    /\ Range(r.invoked) \cap Range(lords_listeners) = {}

\* a task has passed a LordsDivision to the lords listener and returned, and
\* another one has passed a CommonsDivision to the commons listeners
C19_Witness ==
    /\ div_last # <<>>
    /\ div_last[1].at = "listeners"
    /\ div_last[1].how = "returned"
    /\ div_last[1].division[1].house = "lords"
    /\ div_last[1].invoked = <<"l1">>
    /\ \E t \in div_tasks :
           /\ t.pc = "listeners"
           /\ t.division[1].house = "commons"
           /\ t.invoked = <<"c1", "c2">>

-----------------------------------------------------------------------------
(* Properties of BillsTracker and PublicationsTracker, checked under       *)
(* SpecBills                                                               *)

\* the number of registered listeners whose conditions the entry meets
NumMatching(item) ==
    Cardinality({i \in DOMAIN listeners :
                     MeetsConditions(listeners[i], FeedUpdate(item))})

\* C1: with a storage whose has_update_stored answers true exactly for the
\* updates passed to add_feed_update, an entry that the aggregate feed has
\* presented in two poll cycles has been dispatched once to each matching
\* listener, and add_feed_update has been called once for it.
C1_DispatchedAndStoredOnce ==
    (probe.presented = 2 /\ Quiet)
        => (probe.handled = NumMatching(ProbeEntry) /\ probe.added = 1)

\* C2: with one listener registered for ALL and an empty storage, the first
\* poll, answered with N entries, dispatches N updates to the listener, and
\* a poll answered with an unchanged build date dispatches none.
C2_FirstPollDispatchesAll ==
    (listeners = <<{"ALL"}>> /\ bills_poll.pc = "idle" /\ poll_tasks = {})
        => /\ (bills_poll.fresh /\ bills_poll.outcome = "returned")
                  => bills_poll.dispatched = bills_poll.entries
           /\ bills_poll.outcome = "skipped" => bills_poll.dispatched = 0

\* a poll cycle of either tracker ends by raising
CycleRaises ==
    \/ bills_poll.pc # "idle" /\ bills_poll'.pc = "idle"
           /\ bills_poll'.outcome = "raised"
    \/ pub_poll.pc # "idle" /\ pub_poll'.pc = "idle"
           /\ pub_poll'.outcome = "raised"

\* C3: when a poll cycle of the BillsTracker or of the PublicationsTracker
\* raises, every watermark has the value it had when the cycle began.
C3_WatermarksKeptOnRaise ==
    [][CycleRaises => Watermarks' = wm_start]_vars

\* C4: no watermark ever decreases: _last_update, each Feed's last_update
\* and each Feed's last_publication_update only move to a later or equal
\* timestamp (None, written 0, precedes every timestamp).
C4_WatermarksNeverDecrease ==
    [][/\ tracker_last_update' >= tracker_last_update
       /\ Len(feeds') >= Len(feeds)
       /\ \A i \in DOMAIN feeds :
              /\ feeds'[i].bill_url = feeds[i].bill_url
              /\ feeds'[i].last_update >= feeds[i].last_update
              /\ feeds'[i].last_publication_update
                     >= feeds[i].last_publication_update]_vars

\* a Feed whose last_update was set by an earlier, stored update has been
\* moved to the later timestamp of the entry that a _poll_task holds
C4_Witness ==
    \E t \in poll_tasks :
        /\ t.pc = "has_update_stored"
        /\ feeds[t.feed].last_update = t.item.updated
        /\ \E u \in stored_updates :
               u.bill_id = StrId(t.item.bill) /\ u.updated < t.item.updated

\* C20: when the aggregate feed's build date is newer than the watermark,
\* every entry of the feed is handed to exactly one Feed object (a
\* _poll_task is created for it) and no entry is dropped unprocessed.
C20_EveryEntryHanded ==
    (bills_poll.pc = "gather" \/ bills_poll.outcome = "returned")
        => bills_poll.handed = bills_poll.entries

\* C21: a poll whose aggregate feed has a build date that is not newer than
\* _last_update returns with _last_update and _feeds unchanged, makes no
\* storage call and invokes no listener (no _poll_task is created).
C21_StalePollChangesNothing ==
    [][(/\ bills_poll.pc = "get"
        /\ bills_poll'.pc = "idle"
        /\ bills_poll'.outcome # "raised"
        /\ tracker_last_update # 0
        /\ bills_poll'.lastbuilddate <= tracker_last_update)
           => /\ bills_poll'.outcome = "skipped"
              /\ tracker_last_update' = tracker_last_update
              /\ feeds' = feeds
              /\ stored_updates' = stored_updates
              /\ poll_tasks' = poll_tasks
              /\ probe'.added = probe.added
              /\ probe'.handled = probe.handled]_vars

\* a poll was skipped whose feed had entries and a build date older than
\* _last_update
C21_Witness ==
    /\ bills_poll.outcome = "skipped"
    /\ bills_poll.entries > 0
    /\ bills_poll.lastbuilddate < tracker_last_update

C24_StaleEntryDiscarded ==
    [][\A t \in poll_tasks :
           (/\ t.pc = "start"
            /\ t \notin poll_tasks'
            /\ feeds[t.feed].last_update # 0
            /\ t.item.updated <= feeds[t.feed].last_update)
               => /\ poll_tasks' = poll_tasks \ {t}
                  /\ feeds' = feeds
                  /\ stored_updates' = stored_updates
                  /\ probe'.added = probe.added
                  /\ probe'.handled = probe.handled]_vars

\* an entry with the timestamp of its Feed's last_update has been discarded
C24_Witness ==
    /\ probe.discarded > 0
    /\ poll_tasks = {}
    /\ stored_updates = {}
    /\ \E i \in DOMAIN feeds : feeds[i].last_update # 0

\* C25: for every bill Feed, the first publications fetch made for that
\* Feed uses the per-feed fetch limit pffl and every later fetch for it uses
\* the incremental limit, also for Feeds added after the publications
\* tracker's first poll.
C25_FirstFetchUsesPffl ==
    \A t \in fetch_tasks :
        t.update_limit = IF t.first THEN Pffl ELSE DefaultUpdateLimit

\* C29: BillsTracker.poll handles the entries of one cycle oldest first:
\* for two entries of the same cycle, the task of the older entry is created
\* and started before that of the newer entry.
C29_OldestFirst ==
    ((bills_poll.pc = "gather" \/ bills_poll.outcome = "returned")
         /\ bills_poll.entries >= 2)
        => /\ Len(bills_poll.order) = bills_poll.entries
           /\ \A i, j \in DOMAIN bills_poll.order :
                  bills_poll.order[i].updated < bills_poll.order[j].updated
                      => i < j

\* C32: when a poll call ends, every update it recorded in the storage has
\* been passed to the listeners. For PublicationsTracker.poll: the listener
\* tasks appended for the publications stored during the call (they are
\* gathered only after every _fetch_task has ended) are not dropped unrun,
\* so a poll that ends while it gathers the fetch tasks has appended none.
C32_StoredThenDispatched ==
    [][(pub_poll.pc = "fetch" /\ pub_poll'.pc = "idle")
           => pub_poll.tasks = <<>>]_vars

\* C34: in _poll_task every add_feed_update call for an update has completed
\* before a listener handler for that update starts running: a task with a
\* running handler awaits no add_feed_update, has made as many calls as it
\* has handlers, and its update is in the storage.
C34_StoredBeforeHandled ==
    \A t \in poll_tasks :
        t.started > 0 => /\ t.pc = "handlers"
                         /\ t.started = Len(t.handlers)
                         /\ t.adds = Len(t.handlers)
                         /\ t.update[1] \in stored_updates

\* the handlers of two matching listeners are running after two
\* add_feed_update calls
C34_Witness ==
    \E t \in poll_tasks :
        /\ t.started = 2
        /\ t.adds = 2
        /\ t.update[1] \in stored_updates

\* no two Feeds of the list are for the same bill
OneFeedPerBill(fs) ==
    \A i, j \in DOMAIN fs : fs[i].bill_url = fs[j].bill_url => i = j

\* C38: after any sequence of polls, also with an aggregate feed that lists
\* a bill more than once, _feeds holds at most one Feed per bill; and the
\* for loop of poll, run from the Feed list over any item list, ends with at
\* most one Feed per bill.
C38_OneFeedPerBillKept ==
    /\ OneFeedPerBill(feeds)
    /\ \A items \in NewestFirstEntries :
           OneFeedPerBill(PollLoop(Reverse(items), feeds, {}, 0).feeds)

\* a poll whose response listed a bill twice has returned, with that bill
\* tracked by one Feed
C38_Witness ==
    /\ bills_poll.outcome = "returned"
    /\ bills_poll.repeated
    /\ Len(feeds) = 2
    /\ \E items \in NewestFirstEntries :
           /\ Len(items) = 2
           /\ items[1].bill = items[2].bill
           /\ PollLoop(Reverse(items), feeds, {}, 0).feeds = feeds

-----------------------------------------------------------------------------
(* Properties of the member lookups and the division population, checked   *)
(* under SpecPop                                                           *)

\* C11: when a member lookup fails while a division is being populated,
\* the call raises, and no division for which a lookup failed is in
\* division_cache, in a division search cache or in what a call returned.
C11_NoPartialDivision ==
    /\ \A id \in DivisionIds :
           division_cache[id] # <<>> => ~division_cache[id][1].lookup_failed
    /\ \A k \in DOMAIN division_search_cache :
           division_search_cache[k] # <<>>
               => \A i \in DOMAIN division_search_cache[k][1] :
                      ~division_search_cache[k][1][i].lookup_failed
    /\ (pop_ret.outcome # "none" /\ pop_ret.op \in {"get", "search"}
           /\ pop_ret.failed)
          => pop_ret.outcome = "raised"

\* a get_*_division call has raised because a member lookup failed after
\* an earlier gather of the population had ended
C11_Witness ==
    /\ pop_ret.outcome = "raised"
    /\ pop_ret.op = "get"
    /\ pop_ret.failed
    /\ member_loaded # {}

\* the list holds one member for each id of ids
SameMembers(list, ids) ==
    /\ Len(list) = Len(ids)
    /\ \A m \in MemberIds :
           Cardinality({i \in DOMAIN list : list[i] = m})
               = Cardinality({i \in DOMAIN ids : ids[i] = m})

\* C12: a division returned by a population that ended without error holds,
\* in each member list, one resolved member for each id of the matching id
\* list (for a Commons division also in the list of non-voters).
C12_MemberListsComplete ==
    (pop_ret.outcome = "returned" /\ pop_ret.op = "get")
        => LET d == pop_ret.value
           IN  /\ SameMembers(d.aye_members, d.ids.aye_ids)
               /\ SameMembers(d.no_members, d.ids.no_ids)
               /\ SameMembers(d.aye_tellers, d.ids.aye_teller_ids)
               /\ SameMembers(d.no_tellers, d.ids.no_teller_ids)
               /\ d.house = "commons"
                      => SameMembers(d.didnt_vote, d.ids.no_vote_ids)

\* C13: a member that lazy_load_member has fetched is in old_member_cache,
\* and is not requested from the member endpoint again.
C13_LoadedMemberIsCached ==
    /\ member_loaded \subseteq old_member_cache
    /\ member_refetched = {}

\* C14: get_lords_division returns no CommonsDivision and
\* get_commons_division returns no LordsDivision.
C14_NoCrossKindDivision ==
    (pop_ret.outcome = "returned" /\ pop_ret.op = "get")
        => pop_ret.value.house = pop_ret.house

-----------------------------------------------------------------------------
(* Properties of the TTL caches, under SpecCache                           *)

\* the probe key's last lookup came after an insertion of the key
LookedAfterInsert ==
    /\ cache_probe.look.result # "none"
    /\ cache_probe.look.inserted # -1

-----------------------------------------------------------------------------
(* Properties of meets_conditions, under SpecMatch                         *)

\* one of the item's category texts contains the word, whatever its case
TagContains(word) ==
    \E i \in DOMAIN mc_in.categories : Contains(Lower(mc_in.categories[i]), word)

\* C16: a LORDS (COMMONS) listener matches when a category tag contains
\* 'lords' ('commons') case-insensitively, a ROYAL_ASSENT listener when the
\* stage name contains 'royal assent' case-insensitively
C16_SubstringMatch ==
    mc_out # <<>> =>
        /\ ("LORDS" \in mc_in.conditionals /\ TagContains(LordsWord))
              => mc_out[1]
        /\ ("COMMONS" \in mc_in.conditionals /\ TagContains(CommonsWord))
              => mc_out[1]
        /\ (/\ "ROYAL_ASSENT" \in mc_in.conditionals
            /\ mc_in.stage # <<>>
            /\ Contains(Lower(mc_in.stage[1]), RoyalAssentWord))
              => mc_out[1]

\* the conditions meets_conditions never looks at
Untested == {"PUBLICATIONS", "GOV_BILL", "PRI_BILL"}

-----------------------------------------------------------------------------
(* Properties of the scheduling loops, under SpecLoops                     *)

\* C17: after a poll cycle raises, the loop is still running; a failed
\* cycle never stops it
C17_LoopSurvivesRaise ==
    \A l \in LoopNames : loops[l].raised > 0 => loops[l].pc # "stopped"

\* the poll cycles a loop of bills_tracker.py has in flight: the one that
\* main() awaits
InFlight(l) == IF loops[l].pc = "polling" THEN 1 ELSE 0

\* C22: a scheduling loop starts a poll cycle only after the previous cycle
\* of the same tracker has completed or failed; no two cycles of one
\* tracker (bills, publications, Commons divisions, Lords divisions) are in
\* flight together
C22_OneCycleInFlight ==
    /\ \A l \in LoopNames : InFlight(l) <= 1
    /\ div_loop.commons <= 1
    /\ div_loop.lords <= 1

-----------------------------------------------------------------------------
(* Properties of fetch_newest_publications, under SpecFetch                *)

\* the call returned after scanning the items: no watermark was set, or the
\* feed's build time is after it
Scanned ==
    /\ fp_out # <<>>
    /\ fp_out[1].outcome = "returned"
    /\ (fp_in.watermark = 0 \/ fp_in.watermark < fp_in.resp.lastbuilddate)

\* an entry is older than the watermark held when the call began
Older(d) == fp_in.watermark # 0 /\ d < fp_in.watermark

\* C26: fetch_newest_publications returns a prefix of the feed's entries in
\* feed order, of at most update_limit entries and without an entry older
\* than the watermark; a scan ends at the first older entry or after
\* update_limit entries, whichever comes first.
C26_PrefixUpToLimit ==
    (fp_out # <<>> /\ fp_out[1].outcome = "returned") =>
        LET results == fp_out[1].results
            items == fp_in.resp.items
        IN  /\ Len(results) <= Len(items)
            /\ results = SubSeq(items, 1, Len(results))
            /\ Len(results) <= fp_in.update_limit
            /\ \A i \in DOMAIN results : ~Older(results[i])
            /\ Scanned => \/ Len(results) = Len(items)
                          \/ Len(results) = fp_in.update_limit
                          \/ Older(items[Len(results) + 1])

\* a scan of three entries, none older than the watermark, was cut at the
\* limit of two
C26_Witness ==
    /\ Scanned
    /\ fp_in.watermark # 0
    /\ fp_in.update_limit = 2
    /\ Len(fp_in.resp.items) = 3
    /\ Len(fp_out[1].results) = 2
    /\ ~Older(fp_in.resp.items[3])

\* C33: no publication entry is skipped for good. With a feed that lists its
\* entries newest first and was built no earlier than its newest entry, an
\* entry that is newer than the watermark held when the call began is in the
\* returned list, or is not older than the watermark the call leaves behind
\* (a later call ends its scan at the first entry older than the watermark).
C33_NoEntrySkipped ==
    LET items == fp_in.resp.items
    IN  (/\ Scanned
         /\ \A i \in DOMAIN items : items[i] <= fp_in.resp.lastbuilddate
         /\ \A i, j \in DOMAIN items : i < j => items[i] >= items[j])
            => \A i \in DOMAIN items :
                   (fp_in.watermark = 0 \/ items[i] > fp_in.watermark)
                       => \/ i <= Len(fp_out[1].results)
                          \/ items[i] >= fp_out[1].last_publication_update

\* C27: when last_publication_update is set and is at or after the feed's
\* build time, the call returns an empty list and leaves
\* last_publication_update unchanged, and the _fetch_task ends without a
\* storage call or a listener task for that Feed.
C27_EarlyExitChangesNothing ==
    (/\ fp_out # <<>>
     /\ fp_out[1].outcome = "returned"
     /\ fp_in.watermark # 0
     /\ fp_in.watermark >= fp_in.resp.lastbuilddate)
        => /\ fp_out[1].results = <<>>
           /\ fp_out[1].last_publication_update = fp_in.watermark
           /\ fp_out[1].next = "ends"

\* the call returned early although the feed lists an entry that is not
\* older than the watermark
C27_Witness ==
    /\ fp_out # <<>>
    /\ fp_out[1].outcome = "returned"
    /\ fp_in.watermark > fp_in.resp.lastbuilddate
    /\ fp_in.resp.items # <<>>
    /\ ~Older(fp_in.resp.items[1])
    /\ fp_out[1].results = <<>>

-----------------------------------------------------------------------------
(* Properties of the fan-outs built in loops, under SpecIndex              *)

\* C28: in a concurrent fan-out built inside a loop, each task operates on
\* the entry of the loop iteration that created it and not on the entry of
\* the last iteration.
C28_TaskUsesOwnEntry ==
    idx.pc # "idle" =>
        \A i \in DOMAIN idx.results :
            idx.fetched[i] # <<>> =>
                /\ idx.fetched[i][1].represents = idx.results[i]
                /\ idx.fetched[i][1].constituency = idx.results[i]

-----------------------------------------------------------------------------
(* Properties of the cache locks, under SpecLocks                          *)

\* C30: every read and every write of an entity cache happens while the
\* lock of that cache is held by the accessing caller, and each lock has at
\* most one holder at any time.
C30_AccessUnderLock ==
    /\ \A l \in Locks : Cardinality(holders[l]) <= 1
    /\ \A c \in LockCallers :
           /\ ~callers[c].bare
           /\ callers[c].pc \in {"get", "set", "release_read", "release_write"}
                 => holders[LockOf(callers[c].function)] = {c}

\* one caller writes the division cache under its lock while a caller of
\* the other division function waits for the same lock and a third caller
\* reads the bills cache under the bills lock
C30_Witness ==
    \E a, b, c \in LockCallers :
        /\ callers[a].pc = "set"
        /\ callers[a].function = "get_commons_division"
        /\ callers[b].pc = "acquire_read"
        /\ callers[b].function = "get_lords_division"
        /\ callers[c].pc = "release_read"
        /\ callers[c].function = "get_bill"
        /\ holders["division_cache_lock"] = {a}
        /\ holders["bills_cache_lock"] = {c}

\* C37: at most one upstream request is in flight for a key: while a lookup
\* of an uncached key awaits its response, a second lookup of the same key
\* by the same function sends no request of its own.
C37_OneFetchInFlight ==
    \A c, d \in LockCallers :
        (/\ c # d
         /\ callers[c].pc = "fetch"
         /\ callers[d].pc = "fetch")
            => callers[c].function # callers[d].function

\* C39: no cache lock is held across a suspension point: a caller that
\* awaits its request, or whose call has ended, holds no lock, so the holder
\* of a lock is always inside its `with` block and about to release it.
C39_NoLockAcrossAwait ==
    /\ \A c \in LockCallers :
           callers[c].pc \in {"idle", "fetch"}
               => \A l \in Locks : c \notin holders[l]
    /\ \A l \in Locks : \A h \in holders[l] :
           callers[h].pc \in {"get", "set", "release_read", "release_write"}

\* while one caller awaits the response for a bill, another caller holds the
\* bills lock
C39_Witness ==
    \E c, d \in LockCallers :
        /\ callers[c].pc = "fetch"
        /\ callers[c].function = "get_bill"
        /\ holders["bills_cache_lock"] = {d}

=============================================================================
